---------------------------- MODULE Spec2Model ----------------------------
(***************************************************************************)
(* State-machine model of the AI-CG daily news site:                       *)
(*   - FavoritesManager (website/app.js): the persisted favorites list;    *)
(*   - the reader proxy (api/reader.js): one request through the handler;  *)
(*   - initHistoryList / showNews / loadMarkdown / renderMarkdown          *)
(*     (website/app.js): date probing and report display;                  *)
(*   - StreakManager, the boot sequence, PreviewManager, TagFilterManager, *)
(*     ModalManager, SearchManager and ThemeManager (website/app.js);      *)
(*   - the useNews hook (website/src/hooks/useNews.js);                    *)
(*   - the favorite stars of the cards, the feedback between showNews and  *)
(*     the hashchange listener, and overlapping refresh() calls            *)
(*     (website/app.js).                                                   *)
(* Each component has its own specification (SpecFav, SpecReader, ...);    *)
(* the variables of the components a specification does not run stay at    *)
(* their idle values.                                                      *)
(***************************************************************************)
EXTENDS Integers, Sequences, FiniteSets, Bags, TLC

VARIABLES
    favStorage,   \* localStorage['aicg_news_favorites']
    favCall,      \* the last completed FavoritesManager call (history variable)
    rdReq,        \* reader proxy: the request being handled
    rdPc,         \* reader proxy: "idle", "fetch" (await fetch), "body" (await text()), "done"
    rdTimer,      \* reader proxy: the 12 s timer: "none", "armed", "cleared", "fired"
    rdAborted,    \* reader proxy: controller.signal.aborted
    rdDeadline,   \* reader proxy: 12 s have passed since setTimeout was called
    rdOutbound,   \* reader proxy: the outbound requests issued
    rdUpstream,   \* reader proxy: what the upstream exchange did (history variable)
    rdResponses,  \* reader proxy: the responses sent on res, in order
    hsPc,         \* initHistoryList: "idle", "probing" (await fetch / text), "done"
    hsIdx,        \* initHistoryList: number of dates probed so far
    hsAvail,      \* initHistoryList: availableDates
    hsLog,        \* initHistoryList: what each date's probe returned (history variable)
    historyList,  \* the dates of the rendered history list (#historyList), top first
    nwContent,    \* the content region (#content): what it shows
    nwDateLabel,  \* the date label (#currentDate): the date it was formatted from
    nwBadge,      \* #todayBadge carries the "today" text
    nwBackVisible,\* #backToToday has the class "visible"
    nwHash,       \* window.location.hash without its leading '#'
    nwHashEvents, \* hashchange events dispatched to the window and not yet handled
    nwLoads,      \* showNews calls awaiting loadMarkdown: date |-> how many
    nwLastRender, \* the last renderMarkdown call of showNews (history variable)
    net,          \* what fetch of a report file can do in this run (never changes)
    nwStatus,     \* the status indicator (#status): "initial", "refreshing", "online"
    rfPc,         \* refresh(): "idle", "probing", "showing" (await showNews), "done"
    rfTarget,     \* refresh(): targetDate
    rfSeen,       \* refresh(): the fragment and the dates it chose from (history variable)
    clockDate,    \* the local calendar date of the browser, <<year, month, day>>
    clockDays,    \* midnights passed since the first page load
    streakStorage,\* localStorage['aicg_news_streak']
    streakCall,   \* the last StreakManager.update() at page load (history variable)
    bootPc,       \* the DOMContentLoaded handler: "loading", "sidebar", "streak",
                  \* "refresh" (it awaits refresh()), "failed" (it threw)
    splitSlot,    \* localStorage['preview_split_ratio']
    splitRatio,   \* PreviewManager.splitRatio, in hundredths
    contentWidth, \* the CSS variable --content-width of the content wrapper
    splitInited,  \* PreviewManager.initDraggable has run
    isDragging,   \* PreviewManager.isDragging
    rafPending,   \* PreviewManager._rafId is set: an animation frame is requested
    rafRatio,     \* the ratio the requested frame will apply
    dragLast,     \* the last pointer move of the drag in progress (history variable)
    dragRelease,  \* the last release of the divider (history variable)
    splitMode,    \* the content wrapper has the class split-mode
    currentUrl,   \* PreviewManager.currentUrl ("" for null)
    frameSrc,     \* previewIframe.src
    frameNav,     \* the frame is loading a document: its load event is still to come
    loadingShown, \* previewLoading is not hidden
    errorShown,   \* previewError is not hidden
    specialShown, \* previewSpecial is not hidden
    loadTimeoutId,\* PreviewManager.loadTimeoutId (0 for null)
    deferred,     \* the pending 50 ms timers of open(), oldest first
    watchdogs,    \* the pending watchdog timers, oldest first, by the open() they serve
    opens,        \* open() calls so far; the number of the latest preview
    pvClosed,     \* close() was called and open() was not called since (history variable)
    pvTrace,      \* what watchdogs did (history variable)
    tgCards,      \* the .news-card elements of the content region, as the report gave them
    tgDatasets,   \* card.dataset.tags of each card
    tgHidden,     \* whether each card has the class filtered-out
    tagCloud,     \* the tags of the items of the tag cloud
    selectedTags, \* TagFilterManager.selectedTags
    tgLoading,    \* a showNews call is between its start and renderMarkdown
    tgRendered,   \* renderMarkdown of showNews was the last step (history variable)
    editHidden,   \* #editModal has the class "hidden"
    deleteHidden, \* #deleteModal has the class "hidden"
    overlayHidden,\* #modalOverlay has the class "hidden"
    overlayActive,\* #modalOverlay has the class "active"
    editTitle,    \* #editTitleInput.value
    editNote,     \* #editNoteInput.value
    onSave,       \* ModalManager.onSave: the url of the item its closure holds, or Undefined
    onDelete,     \* ModalManager.onDelete: the url of the item its closure holds, or Undefined
    mdFrames,     \* requestAnimationFrame callbacks of show() not yet run
    mdTimers,     \* 300 ms timers of close() not yet fired
    activeElement,\* document.activeElement
    dialogOpen,   \* a dialog was opened and close() has not run since (history variable)
    lastSave,     \* the last click on the edit dialog's save button (history variable)
    searchValue,  \* #searchInput.value
    srTimer,      \* the timer of the debounced input listener: armed, and when it is due (ms)
    srNow,        \* milliseconds since the page was loaded
    srDisplayed,  \* the cards whose style.display is not 'none'
    srCount,      \* #searchCount: "" or the number of results it reports
    srNoResults,  \* the "no results" panel is displayed
    srLinked,     \* the cards whose .news-title still holds the .news-title-link element
    srInput,      \* the last input event of the search box (history variable)
    srRun,        \* the runs of search() since the current burst of input events began (history variable)
    lastKey,      \* the keydown event handled last, if no other step followed (history variable)
    dataTheme,    \* per open tab: the data-theme attribute of the root element ("" when it has none)
    themeStorage, \* localStorage['aicg_news_theme'], shared by the tabs
    systemDark,   \* matchMedia('(prefers-color-scheme: dark)').matches
    toggles,      \* the toggles since the last set(): the tab of the last one, how many in a row, and the theme that tab had before (history variable)
    arxivUrl,     \* this.currentUrl while the arXiv panel is shown, as text (<<>> before any link is opened)
    openedUrl,    \* the url of the last window.open of the panel's buttons
    urlTrail,     \* which button opened it, from which url, and the abstract url the current url is the PDF of (history variable)
    unStore,      \* the report store: the dates getAvailableDates finds, and whether probing fails (never changes)
    unDates,      \* useNews: availableDates
    unCurrentDate,\* useNews: currentDate ("" for null)
    unMarkdown,   \* useNews: markdown (<<>> for null)
    unIsLoading,  \* useNews: isLoading
    unStatus,     \* useNews: status
    unHash,       \* useNews: window.location.hash without its leading '#'
    unHashEvents, \* useNews: hashchange events dispatched and not yet handled
    unFetches,    \* useNews: the bag of loadMarkdown calls awaited, each with whether refresh awaits it
    unProbes,     \* useNews: the refresh calls awaiting getAvailableDates
    unListener,   \* useNews: the availableDates of the selectDate the hashchange listener holds
    unEffect,     \* useNews: selectDate changed and the effect has not yet run again
    unCycles,     \* useNews: the refresh calls made so far, counted up to MaxCycles
    unCall,       \* the last selectDate call and the state it found, if no other step followed (history variable)
    fsCards,      \* the .news-card elements of the content region: the url and the title of each
    fsStars,      \* per rendered card: its .fav-btn has the class "active" and shows the filled star
    nwSelections, \* the date selections the user has made (history clicks, back-to-today)
    rcStore,      \* the dates whose report file is in the reports directory
    rcCycles,     \* per refresh() call of the run: where it is, the probes it has in flight, its availableDates and its targetDate
    rcRendered    \* the refresh() calls whose initHistoryList rendered the history list, in the order they did (history variable)

favVars == <<favStorage, favCall>>
rdVars == <<rdReq, rdPc, rdTimer, rdAborted, rdDeadline, rdOutbound, rdUpstream, rdResponses>>
hsVars == <<hsPc, hsIdx, hsAvail, hsLog, historyList>>
nwVars == <<nwContent, nwDateLabel, nwBadge, nwBackVisible, nwHash, nwHashEvents, nwLoads,
            nwLastRender>>
rfVars == <<nwStatus, rfPc, rfTarget, rfSeen>>
stVars == <<clockDate, clockDays, streakStorage, streakCall>>
spVars == <<splitSlot, splitRatio, contentWidth, splitInited, isDragging, rafPending, rafRatio,
            dragLast, dragRelease>>
pvVars == <<splitMode, currentUrl, frameSrc, frameNav, loadingShown, errorShown, specialShown,
            loadTimeoutId, deferred, watchdogs, opens, pvClosed, pvTrace>>
tgVars == <<tgCards, tgDatasets, tgHidden, tagCloud, selectedTags, tgLoading, tgRendered>>
mdVars == <<editHidden, deleteHidden, overlayHidden, overlayActive, editTitle, editNote,
            onSave, onDelete, mdFrames, mdTimers, activeElement, dialogOpen, lastSave>>
srVars == <<searchValue, srTimer, srNow, srDisplayed, srCount, srNoResults, srLinked, srInput,
            srRun, lastKey>>
srState == <<searchValue, srTimer, srNow, srDisplayed, srCount, srNoResults, srLinked, srInput,
             srRun>>
thVars == <<dataTheme, themeStorage, systemDark, toggles>>
uxVars == <<arxivUrl, openedUrl, urlTrail>>
unVars == <<unStore, unDates, unCurrentDate, unMarkdown, unIsLoading, unStatus, unHash,
            unHashEvents, unFetches, unProbes, unListener, unEffect, unCycles, unCall>>
fsVars == <<fsCards, fsStars>>
fbVars == <<nwSelections>>
rcVars == <<rcStore, rcCycles, rcRendered>>

vars == <<favStorage, favCall,
          rdReq, rdPc, rdTimer, rdAborted, rdDeadline, rdOutbound, rdUpstream, rdResponses,
          hsPc, hsIdx, hsAvail, hsLog, historyList,
          nwContent, nwDateLabel, nwBadge, nwBackVisible, nwHash, nwHashEvents, nwLoads,
          nwLastRender, net, nwStatus, rfPc, rfTarget, rfSeen,
          clockDate, clockDays, streakStorage, streakCall, bootPc,
          splitSlot, splitRatio, contentWidth, splitInited, isDragging, rafPending, rafRatio,
          dragLast, dragRelease,
          splitMode, currentUrl, frameSrc, frameNav, loadingShown, errorShown, specialShown,
          loadTimeoutId, deferred, watchdogs, opens, pvClosed, pvTrace,
          tgCards, tgDatasets, tgHidden, tagCloud, selectedTags, tgLoading, tgRendered,
          editHidden, deleteHidden, overlayHidden, overlayActive, editTitle, editNote, onSave,
          onDelete, mdFrames, mdTimers, activeElement, dialogOpen, lastSave,
          searchValue, srTimer, srNow, srDisplayed, srCount, srNoResults, srLinked, srInput,
          srRun, lastKey,
          dataTheme, themeStorage, systemDark, toggles,
          arxivUrl, openedUrl, urlTrail,
          unStore, unDates, unCurrentDate, unMarkdown, unIsLoading, unStatus, unHash,
          unHashEvents, unFetches, unProbes, unListener, unEffect, unCycles, unCall,
          fsCards, fsStars,
          nwSelections,
          rcStore, rcCycles, rcRendered>>

(***************************************************************************)
(* Shared helpers                                                          *)
(***************************************************************************)
Undefined == "undefined"

\* A localStorage slot: getItem returns null for an absent key, else the stored text.
Absent == [has |-> FALSE, json |-> TRUE, text |-> <<>>]
Stored(text) == [has |-> TRUE, json |-> TRUE, text |-> text]
\* A slot that holds a text that is not JSON.
NotJson == [has |-> TRUE, json |-> FALSE, text |-> <<>>]

Range(s) == {s[i] : i \in 1..Len(s)}

(***************************************************************************)
(*                          FavoritesManager                               *)
(***************************************************************************)
MaxFav == 4          \* cap on the stored list's length (add is not offered beyond it)

Urls == {"u1", "u2", "u3"}
Titles == {"t1", "t2"}
Notes == {"n1"}
ReportDates == {"d1"}

EmptyObj == [k \in {} |-> ""]

\* The objects injectBtn passes to add: { title, url, date }.
FavItems == {[title |-> t, url |-> u, date |-> d] : t \in Titles, u \in Urls, d \in ReportDates}

\* The objects passed to update: any selection of the fields title / note.
FavUpdates ==
    {EmptyObj}
    \cup {[title |-> t] : t \in Titles}
    \cup {[note |-> n] : n \in Notes}
    \cup {[title |-> t, note |-> n] : t \in Titles, n \in Notes}

\* Object spread { ...a, ...b }.
Spread(a, b) == [k \in DOMAIN a \cup DOMAIN b |-> IF k \in DOMAIN b THEN b[k] ELSE a[k]]

\* JSON.stringify of one object: properties whose value is undefined are dropped.
StringifyObj(o) == [k \in {f \in DOMAIN o : o[f] # Undefined} |-> o[k]]

\* JSON.stringify(list) / JSON.parse(data) for an array of flat objects.
JSON_stringify(list) == [i \in 1..Len(list) |-> StringifyObj(list[i])]
JSON_parse(data) == data

\* list.findIndex(i => i.url === url), 1-based; 0 stands for -1.
FindIndex(list, url) ==
    IF \E i \in 1..Len(list) : list[i].url = url
    THEN CHOOSE i \in 1..Len(list) :
            /\ list[i].url = url
            /\ \A j \in 1..(i - 1) : list[j].url # url
    ELSE 0

\* list.filter(i => i.url !== url)
RECURSIVE FilterOut(_, _)
FilterOut(list, url) ==
    IF list = <<>> THEN <<>>
    ELSE IF Head(list).url = url THEN FilterOut(Tail(list), url)
         ELSE <<Head(list)>> \o FilterOut(Tail(list), url)

\* FavoritesManager.get(): data ? JSON.parse(data) : []
FavoritesManager_get(storage) == IF storage.has THEN JSON_parse(storage.text) ELSE <<>>

\* JSON.parse in get() throws a SyntaxError on a text that is not JSON; get() has no
\* try block.
FavoritesManager_getThrows(storage) == storage.has /\ ~storage.json

\* FavoritesManager.isFavorite(url)
FavoritesManager_isFavorite(storage, url) ==
    \E i \in 1..Len(FavoritesManager_get(storage)) : FavoritesManager_get(storage)[i].url = url

\* Each operation is a function of the storage value giving the new storage value,
\* the returned value and whether localStorage.setItem was called.
Mut_add_NoDedup(storage, item) ==
    LET list == FavoritesManager_get(storage)
    IN  [storage |-> Stored(JSON_stringify(<<item>> \o list)), ret |-> "true", wrote |-> TRUE]

Mut_add_Push(storage, item) ==
    LET list == FavoritesManager_get(storage)
    IN  IF ~(\E i \in 1..Len(list) : list[i].url = item.url)
        THEN [storage |-> Stored(JSON_stringify(list \o <<item>>)), ret |-> "true", wrote |-> TRUE]
        ELSE [storage |-> storage, ret |-> "false", wrote |-> FALSE]

FavoritesManager_add(storage, item) ==
    LET list == FavoritesManager_get(storage)
    IN  IF ~(\E i \in 1..Len(list) : list[i].url = item.url)
        THEN [storage |-> Stored(JSON_stringify(<<item>> \o list)), ret |-> "true", wrote |-> TRUE]
        ELSE [storage |-> storage, ret |-> "false", wrote |-> FALSE]

FavoritesManager_remove(storage, url) ==
    LET list == FavoritesManager_get(storage)
    IN  [storage |-> Stored(JSON_stringify(FilterOut(list, url))), ret |-> Undefined, wrote |-> TRUE]

Mut_update_AlwaysWrite(storage, url, updates) ==
    LET list == FavoritesManager_get(storage)
        index == FindIndex(list, url)
    IN  IF index # 0
        THEN [storage |-> Stored(JSON_stringify([list EXCEPT ![index] = Spread(list[index], updates)])),
              ret |-> "true", wrote |-> TRUE]
        ELSE [storage |-> Stored(JSON_stringify(list)), ret |-> "false", wrote |-> TRUE]

Mut_update_Replace(storage, url, updates) ==
    LET list == FavoritesManager_get(storage)
        index == FindIndex(list, url)
    IN  IF index # 0
        THEN [storage |-> Stored(JSON_stringify([list EXCEPT ![index] = Spread([url |-> url], updates)])),
              ret |-> "true", wrote |-> TRUE]
        ELSE [storage |-> storage, ret |-> "false", wrote |-> FALSE]

FavoritesManager_update(storage, url, updates) ==
    LET list == FavoritesManager_get(storage)
        index == FindIndex(list, url)
    IN  IF index # 0
        THEN [storage |-> Stored(JSON_stringify([list EXCEPT ![index] = Spread(list[index], updates)])),
              ret |-> "true", wrote |-> TRUE]
        ELSE [storage |-> storage, ret |-> "false", wrote |-> FALSE]

NoCall == [op |-> "none", url |-> "", item |-> EmptyObj, updates |-> EmptyObj,
           pre |-> Absent, ret |-> Undefined, wrote |-> FALSE]

FavInit ==
    /\ favStorage = Absent
    /\ favCall = NoCall

FavAdd ==
    \E item \in FavItems :
        LET r == FavoritesManager_add(favStorage, item)
        IN  /\ Len(FavoritesManager_get(favStorage)) < MaxFav
            /\ favStorage' = r.storage
            /\ favCall' = [op |-> "add", url |-> item.url, item |-> item, updates |-> EmptyObj,
                           pre |-> favStorage, ret |-> r.ret, wrote |-> r.wrote]

FavRemove ==
    \E url \in Urls :
        LET r == FavoritesManager_remove(favStorage, url)
        IN  /\ favStorage' = r.storage
            /\ favCall' = [op |-> "remove", url |-> url, item |-> EmptyObj, updates |-> EmptyObj,
                           pre |-> favStorage, ret |-> r.ret, wrote |-> r.wrote]

FavUpdate ==
    \E url \in Urls, updates \in FavUpdates :
        LET r == FavoritesManager_update(favStorage, url, updates)
        IN  /\ favStorage' = r.storage
            /\ favCall' = [op |-> "update", url |-> url, item |-> EmptyObj, updates |-> updates,
                           pre |-> favStorage, ret |-> r.ret, wrote |-> r.wrote]


\* The list a call saw and the list it left, as get() returns them.
FavPre == FavoritesManager_get(favCall.pre)
FavNow == FavoritesManager_get(favStorage)

UrlsOf(list) == {list[i].url : i \in 1..Len(list)}

\* C1: after any sequence of add / remove / update (title, note) calls the stored
\* list never holds two entries with the same url.
C1_UniqueByUrl ==
    \A i, j \in 1..Len(FavNow) : i # j => FavNow[i].url # FavNow[j].url

\* C1 witness: a full list of three distinct urls on which a second add of a stored
\* url has just been refused.
C1_Witness ==
    /\ favCall.op = "add"
    /\ favCall.url \in UrlsOf(FavPre)
    /\ Len(FavNow) = 3

\* C2: add(item) returns false and leaves the stored value untouched when item.url is
\* already stored; otherwise it returns true and the stored list is item followed by
\* the previous list in its previous order.
C2_AddContract ==
    favCall.op = "add" =>
        IF favCall.url \in UrlsOf(FavPre)
        THEN /\ favCall.ret = "false"
             /\ ~favCall.wrote
             /\ favStorage = favCall.pre
        ELSE /\ favCall.ret = "true"
             /\ favStorage.has
             /\ FavNow = <<favCall.item>> \o FavPre

\* C2 witness: a successful add in front of two older entries.
C2_Witness ==
    /\ favCall.op = "add"
    /\ favCall.ret = "true"
    /\ Len(FavPre) = 2
    /\ FavNow[1] = favCall.item

\* C3: update(url, updates) with no stored entry of that url returns false and calls
\* setItem not at all: the stored value is what it was.
C3_UpdateMissing ==
    (favCall.op = "update" /\ favCall.url \notin UrlsOf(FavPre)) =>
        /\ favCall.ret = "false"
        /\ ~favCall.wrote
        /\ favStorage = favCall.pre

\* C3 witness: an update for a url that is not among the two stored entries.
C3_Witness ==
    /\ favCall.op = "update"
    /\ favCall.url \notin UrlsOf(FavPre)
    /\ Len(FavPre) = 2
    /\ favCall.updates # EmptyObj

\* C4: update(url, updates) on a stored url changes only the fields named in updates
\* of the matching entry: its other fields, its position and all other entries stay.
C4_UpdateFrame ==
    (favCall.op = "update" /\ favCall.url \in UrlsOf(FavPre)) =>
        LET index == FindIndex(FavPre, favCall.url)
        IN  /\ favCall.ret = "true"
            /\ Len(FavNow) = Len(FavPre)
            /\ \A i \in 1..Len(FavPre) : i # index => FavNow[i] = FavPre[i]
            /\ DOMAIN FavNow[index] = DOMAIN FavPre[index] \cup DOMAIN favCall.updates
            /\ \A k \in DOMAIN FavPre[index] \ DOMAIN favCall.updates :
                    FavNow[index][k] = FavPre[index][k]
            /\ \A k \in DOMAIN favCall.updates : FavNow[index][k] = favCall.updates[k]

\* C4 witness: a note-only update of the middle entry of three, whose title is kept.
C4_Witness ==
    /\ favCall.op = "update"
    /\ favCall.updates = [note |-> "n1"]
    /\ Len(FavPre) = 3
    /\ FindIndex(FavPre, favCall.url) = 2
    /\ "note" \notin DOMAIN FavPre[2]
    /\ FavNow[2].title = "t2"

(***************************************************************************)
(*                      Reader proxy (api/reader.js)                       *)
(***************************************************************************)
MaxUrlLen == 4       \* longest url parameter, in tokens

\* A url parameter is a sequence of tokens: names (possible schemes or hosts), the
\* colon and the double slash.
NameTokens == {"http", "HTTPS", "javascript", "file", "host"}
UrlTokens == NameTokens \cup {":", "//"}
UrlStrings == UNION {[1..n -> UrlTokens] : n \in 0..MaxUrlLen}

Methods == {"GET", "POST", "HEAD"}

\* req.method and req.query.url (hasUrl = FALSE: no url parameter).
Requests ==
    {[method |-> m, hasUrl |-> TRUE, url |-> u] : m \in Methods, u \in UrlStrings}
    \cup {[method |-> m, hasUrl |-> FALSE, url |-> <<>>] : m \in Methods}

\* The URL parser lower-cases the scheme.
Lower(t) == IF t = "HTTPS" THEN "https" ELSE t

RECURSIVE SkipSlashes(_)
SkipSlashes(r) == IF r # <<>> /\ Head(r) = "//" THEN SkipSlashes(Tail(r)) ELSE r

RECURSIVE SkipNames(_)
SkipNames(r) == IF r # <<>> /\ Head(r) \in NameTokens THEN SkipNames(Tail(r)) ELSE r

\* Authority of a url: a non-empty host, then nothing, a path, or a colon followed by
\* an empty port (a name is no port number).
AuthorityOk(r) ==
    /\ r # <<>>
    /\ Head(r) \in NameTokens
    /\ LET rest == SkipNames(r)
       IN  \/ rest = <<>>
           \/ Head(rest) = "//"
           \/ /\ Head(rest) = ":"
              /\ \/ Len(rest) = 1
                 \/ rest[2] = "//"

\* new URL(s) without a base: [ok, protocol]; ok = FALSE when the constructor throws.
ParseURL(s) ==
    IF Len(s) < 2 \/ s[1] \notin NameTokens \/ s[2] # ":"
    THEN [ok |-> FALSE, protocol |-> ""]
    ELSE LET scheme == Lower(s[1])
             rest == SubSeq(s, 3, Len(s))
         IN  IF scheme \in {"http", "https"}
             THEN IF AuthorityOk(SkipSlashes(rest))
                  THEN [ok |-> TRUE, protocol |-> scheme]
                  ELSE [ok |-> FALSE, protocol |-> ""]
             ELSE IF scheme = "file"
             THEN [ok |-> TRUE, protocol |-> scheme]
             ELSE IF rest # <<>> /\ Head(rest) = "//" /\ Len(rest) >= 2 /\ rest[2] = ":"
                  THEN [ok |-> FALSE, protocol |-> ""]
                  ELSE [ok |-> TRUE, protocol |-> scheme]

ALLOWED_PROTOCOLS == {"http", "https"}

Mut_isValidUrl_AnyScheme(s) == ParseURL(s).ok

isValidUrl(s) ==
    LET u == ParseURL(s)
    IN  IF u.ok THEN u.protocol \in ALLOWED_PROTOCOLS ELSE FALSE

\* What res carries for one response: status, the JSON body as a key and a value
\* (key "" for .end() without a body) and the headers set on res when it is sent.
Response(status, key, value, headers) ==
    [status |-> status, key |-> key, value |-> value, headers |-> headers]

TIMEOUT_MS == 12000
USER_AGENT == "Mozilla/5.0 (compatible; AI-CG-News-Reader/1.0)"

\* The handler up to its first await: the response it sends, or the outbound fetch.
Mut_handlerStart_UrlFirst(req) ==
    IF ~req.hasUrl \/ req.url = <<>> \/ ~isValidUrl(req.url)
    THEN [responses |-> <<Response(400, "error", "Missing or invalid url", {})>>,
          fetch |-> FALSE, pc |-> "done"]
    ELSE IF req.method # "GET"
    THEN [responses |-> <<Response(405, "", "", {<<"Allow", "GET">>})>>,
          fetch |-> FALSE, pc |-> "done"]
    ELSE [responses |-> <<>>, fetch |-> TRUE, pc |-> "fetch"]

handlerStart(req) ==
    IF req.method # "GET"
    THEN [responses |-> <<Response(405, "", "", {<<"Allow", "GET">>})>>,
          fetch |-> FALSE, pc |-> "done"]
    ELSE IF ~req.hasUrl \/ req.url = <<>> \/ ~isValidUrl(req.url)
    THEN [responses |-> <<Response(400, "error", "Missing or invalid url", {})>>,
          fetch |-> FALSE, pc |-> "done"]
    ELSE [responses |-> <<>>, fetch |-> TRUE, pc |-> "fetch"]

UpstreamStatuses == {200, 204, 304, 404, 500}
UpstreamBodies == {"", "<html>page</html>"}

\* response.ok
ResponseOk(status) == status >= 200 /\ status <= 299

\* The handler after fetch resolved with a response of this status.
Mut_handlerOnResponse_BadGateway(status) ==
    IF ~ResponseOk(status)
    THEN [responses |-> <<Response(502, "error", "Upstream error", {})>>, pc |-> "done"]
    ELSE [responses |-> <<>>, pc |-> "body"]

handlerOnResponse(status) ==
    IF ~ResponseOk(status)
    THEN [responses |-> <<Response(status, "error", "Upstream error", {})>>, pc |-> "done"]
    ELSE [responses |-> <<>>, pc |-> "body"]

\* The handler after response.text() resolved.
handlerOnBody(html) ==
    Response(200, "html", html,
             {<<"Content-Type", "application/json; charset=utf-8">>,
              <<"Cache-Control", "private, max-age=60">>})

\* The catch block: e.name === 'AbortError' ? 504 : 502.
handlerOnError(name) ==
    IF name = "AbortError"
    THEN Response(504, "error", "Timeout", {})
    ELSE Response(502, "error", "Fetch failed", {})

NoRequest == [method |-> "", hasUrl |-> FALSE, url |-> <<>>]
NoUpstream == [kind |-> "none", status |-> 0, body |-> ""]

RdInit ==
    /\ rdReq = NoRequest
    /\ rdPc = "idle"
    /\ rdTimer = "none"
    /\ rdAborted = FALSE
    /\ rdDeadline = FALSE
    /\ rdOutbound = <<>>
    /\ rdUpstream = NoUpstream
    /\ rdResponses = <<>>

\* A request arrives and the handler runs to its first await or to its return.
RdReceive ==
    /\ rdPc = "idle"
    /\ \E req \in Requests :
        LET r == handlerStart(req)
        IN  /\ rdReq' = req
            /\ rdPc' = r.pc
            /\ rdResponses' = rdResponses \o r.responses
            /\ rdTimer' = IF r.fetch THEN "armed" ELSE rdTimer
            /\ rdOutbound' = IF r.fetch
                             THEN Append(rdOutbound, [url |-> req.url, userAgent |-> USER_AGENT])
                             ELSE rdOutbound
            /\ UNCHANGED <<rdAborted, rdDeadline, rdUpstream>>

\* fetch resolves with the upstream status line and headers: clearTimeout, then the
\* response.ok test.
RdFetchResolves ==
    /\ rdPc = "fetch"
    /\ ~rdAborted
    /\ \E status \in UpstreamStatuses :
        LET r == handlerOnResponse(status)
        IN  /\ rdTimer' = IF rdTimer = "armed" THEN "cleared" ELSE rdTimer
            /\ rdUpstream' = [kind |-> "response", status |-> status, body |-> ""]
            /\ rdResponses' = rdResponses \o r.responses
            /\ rdPc' = r.pc
            /\ UNCHANGED <<rdReq, rdAborted, rdDeadline, rdOutbound>>

\* fetch rejects for a reason other than the abort (DNS, connection refused, ...).
RdFetchFails ==
    /\ rdPc = "fetch"
    /\ ~rdAborted
    /\ rdUpstream' = [kind |-> "failure", status |-> 0, body |-> ""]
    /\ rdResponses' = Append(rdResponses, handlerOnError("TypeError"))
    /\ rdPc' = "done"
    /\ UNCHANGED <<rdReq, rdTimer, rdAborted, rdDeadline, rdOutbound>>

\* 12 s pass; the timer callback runs controller.abort() unless it was cleared.
RdTimeout ==
    /\ rdPc # "idle"
    /\ rdReq.method = "GET"
    /\ rdOutbound # <<>>
    /\ ~rdDeadline
    /\ rdDeadline' = TRUE
    /\ rdTimer' = IF rdTimer = "armed" THEN "fired" ELSE rdTimer
    /\ rdAborted' = IF rdTimer = "armed" THEN TRUE ELSE rdAborted
    /\ UNCHANGED <<rdReq, rdPc, rdOutbound, rdUpstream, rdResponses>>

\* The awaited promise (fetch, or text()) rejects with AbortError after the abort.
RdAbortRejects ==
    /\ rdPc \in {"fetch", "body"}
    /\ rdAborted
    /\ rdUpstream' = [rdUpstream EXCEPT !.kind = "aborted"]
    /\ rdResponses' = Append(rdResponses, handlerOnError("AbortError"))
    /\ rdPc' = "done"
    /\ UNCHANGED <<rdReq, rdTimer, rdAborted, rdDeadline, rdOutbound>>

\* response.text() resolves with the body.
RdBodyResolves ==
    /\ rdPc = "body"
    /\ ~rdAborted
    /\ \E html \in UpstreamBodies :
        /\ rdUpstream' = [rdUpstream EXCEPT !.kind = "complete", !.body = html]
        /\ rdResponses' = Append(rdResponses, handlerOnBody(html))
        /\ rdPc' = "done"
        /\ UNCHANGED <<rdReq, rdTimer, rdAborted, rdDeadline, rdOutbound>>

\* response.text() rejects: the connection broke while the body was read.
RdBodyFails ==
    /\ rdPc = "body"
    /\ ~rdAborted
    /\ rdUpstream' = [rdUpstream EXCEPT !.kind = "failure"]
    /\ rdResponses' = Append(rdResponses, handlerOnError("TypeError"))
    /\ rdPc' = "done"
    /\ UNCHANGED <<rdReq, rdTimer, rdAborted, rdDeadline, rdOutbound>>

\* The url parameter is missing, does not parse as a URL, or parses with a scheme
\* other than http / https.
BadUrl(req) ==
    \/ ~req.hasUrl
    \/ ~ParseURL(req.url).ok
    \/ ParseURL(req.url).protocol \notin {"http", "https"}

Resp400 == Response(400, "error", "Missing or invalid url", {})
Resp405 == Response(405, "", "", {<<"Allow", "GET">>})

\* C5 as stated: no outbound request is issued for a missing, unparsable or
\* non-http(s) url parameter, and every such request is answered 400 with
\* {error: 'Missing or invalid url'}.
C5_Claim ==
    (rdPc # "idle" /\ BadUrl(rdReq)) =>
        /\ rdOutbound = <<>>
        /\ rdPc = "done"
        /\ rdResponses = <<Resp400>>

\* C5 amended: no outbound request is issued for a missing, unparsable or
\* non-http(s) url parameter; every such GET request is answered 400 with
\* {error: 'Missing or invalid url'}.
C5_BadUrlRejected ==
    (rdPc # "idle" /\ BadUrl(rdReq)) =>
        /\ rdOutbound = <<>>
        /\ rdPc = "done"
        /\ rdReq.method = "GET" => rdResponses = <<Resp400>>

\* C5 witness: GET ?url=javascript:host has been answered.
C5_Witness ==
    /\ rdPc = "done"
    /\ rdReq.method = "GET"
    /\ rdReq.hasUrl
    /\ rdReq.url = <<"javascript", ":", "host">>
    /\ rdResponses = <<Resp400>>

\* C6: every request whose method is not GET is answered 405 with Allow: GET,
\* whatever its url parameter, and causes no outbound request.
C6_NonGet405 ==
    (rdPc # "idle" /\ rdReq.method # "GET") =>
        /\ rdPc = "done"
        /\ rdResponses = <<Resp405>>
        /\ rdOutbound = <<>>

\* C6 witness: a POST carrying a valid http url has been answered.
C6_Witness ==
    /\ rdPc = "done"
    /\ rdReq.method = "POST"
    /\ rdReq.hasUrl
    /\ rdReq.url = <<"http", ":", "//", "host">>

\* C7: for a GET with a valid http(s) url the response is determined by the upstream
\* outcome (success: 200 {html} with Cache-Control: private, max-age=60; non-success
\* status S: S {error: 'Upstream error'}; abort by the timer: 504 {error: 'Timeout'};
\* other failure: 502 {error: 'Fetch failed'}), and the handler sends exactly one
\* response: none before it returns, one when it has returned.
C7_ResponseByOutcome ==
    (rdPc # "idle" /\ rdReq.method = "GET" /\ ~BadUrl(rdReq)) =>
        /\ Len(rdOutbound) = 1
        /\ rdPc # "done" => rdResponses = <<>>
        /\ rdPc = "done" =>
            /\ Len(rdResponses) = 1
            /\ LET r == rdResponses[1]
               IN  CASE rdUpstream.kind = "complete" ->
                            /\ ResponseOk(rdUpstream.status)
                            /\ r.status = 200
                            /\ r.key = "html"
                            /\ r.value = rdUpstream.body
                            /\ <<"Cache-Control", "private, max-age=60">> \in r.headers
                     [] rdUpstream.kind = "response" ->
                            /\ ~ResponseOk(rdUpstream.status)
                            /\ r = Response(rdUpstream.status, "error", "Upstream error", {})
                     [] rdUpstream.kind = "aborted" ->
                            r = Response(504, "error", "Timeout", {})
                     [] rdUpstream.kind = "failure" ->
                            r = Response(502, "error", "Fetch failed", {})
                     [] OTHER -> FALSE

\* C7 witness: the upstream answered 404 and the handler has returned.
C7_Witness ==
    /\ rdPc = "done"
    /\ rdReq.method = "GET"
    /\ rdUpstream.kind = "response"
    /\ rdUpstream.status = 404

\* C8 as stated: the outbound call is bounded by the 12 s timer: once the 12 s have
\* passed, an upstream exchange (headers and body) that has not completed has been
\* aborted, and an aborted call is answered 504.
C8_Claim ==
    /\ (rdDeadline /\ rdPc \in {"fetch", "body"}) => rdAborted
    /\ (rdAborted /\ rdPc = "done" /\ rdUpstream.kind = "aborted") =>
            rdResponses = <<Response(504, "error", "Timeout", {})>>

(***************************************************************************)
(*            History probing: initHistoryList (website/app.js)            *)
(***************************************************************************)
MaxBodyLen == 2      \* longest response body, in characters

HISTORY_LIMIT == 7   \* CONFIG.historyLimit

\* The calendar: consecutive local dates in YYYY-MM-DD form, the last one today.
DateStrings == <<"2026-10-27", "2026-10-28", "2026-10-29", "2026-10-30",
                 "2026-10-31", "2026-11-01", "2026-11-02", "2026-11-03">>
TodayIdx == Len(DateStrings)

\* getTodayStr()
getTodayStr == DateStrings[TodayIdx]

\* getRecentDates(days): today first, then one day back per step.
getRecentDates(days) == [i \in 1..days |-> DateStrings[TodayIdx - (i - 1)]]

\* Response bodies are strings over a blank, the heading marker, a tag opener and a
\* letter.
BodyChars == {" ", "#", "<", "x"}
Bodies == UNION {[1..n -> BodyChars] : n \in 0..MaxBodyLen}

\* What fetch(url) followed by response.text() can do: fetch rejects; a response
\* arrives (any status) and text() gives its body; text() rejects.
FetchStatuses == {200, 404}
FetchOutcomes ==
    {[kind |-> "fetchThrows", status |-> 0, body |-> <<>>]}
    \cup {[kind |-> "textThrows", status |-> st, body |-> <<>>] : st \in FetchStatuses}
    \cup {[kind |-> "response", status |-> st, body |-> b] : st \in FetchStatuses, b \in Bodies}

\* String.prototype.trim()
RECURSIVE TrimStart(_)
TrimStart(b) == IF b # <<>> /\ Head(b) = " " THEN TrimStart(Tail(b)) ELSE b

RECURSIVE TrimEnd(_)
TrimEnd(b) == IF b # <<>> /\ b[Len(b)] = " " THEN TrimEnd(SubSeq(b, 1, Len(b) - 1)) ELSE b

Trim(b) == TrimEnd(TrimStart(b))

\* text.startsWith('#')
StartsWithHash(b) == b # <<>> /\ Head(b) = "#"

\* The body of the probe loop for one date: TRUE when dateStr is pushed. A rejected
\* fetch or text() lands in the empty catch block.
Mut_probeAccepts_NoOkTest(o) ==
    IF o.kind = "fetchThrows" THEN FALSE
    ELSE IF o.kind = "textThrows" THEN FALSE
    ELSE StartsWithHash(Trim(o.body))

probeAccepts(o) ==
    IF o.kind = "fetchThrows" THEN FALSE
    ELSE IF ~ResponseOk(o.status) THEN FALSE
    ELSE IF o.kind = "textThrows" THEN FALSE
    ELSE StartsWithHash(Trim(o.body))

\* What the log keeps of a probe: the fetch threw, the status was not a success, the
\* success body was a report (its first non-blank character is '#'), or it was not.
FirstNonBlank(b) ==
    IF \E i \in 1..Len(b) : b[i] # " "
    THEN b[CHOOSE i \in 1..Len(b) : b[i] # " " /\ \A j \in 1..(i - 1) : b[j] = " "]
    ELSE ""

ProbeClass(o) ==
    IF o.kind = "fetchThrows" THEN "threw"
    ELSE IF o.status < 200 \/ o.status > 299 THEN "notOk"
    ELSE IF o.kind = "textThrows" THEN "threw"
    ELSE IF FirstNonBlank(o.body) = "#" THEN "report"
    ELSE "okNotReport"

NoLog == [i \in 1..HISTORY_LIMIT |-> "none"]

HsInit ==
    /\ hsPc = "idle"
    /\ hsIdx = 0
    /\ hsAvail = <<>>
    /\ hsLog = NoLog
    /\ historyList = <<>>

\* initHistoryList() is called: dates and availableDates are set up and the first
\* probe is awaited.
HsStart ==
    /\ hsPc = "idle"
    /\ hsPc' = "probing"
    /\ hsIdx' = 0
    /\ hsAvail' = <<>>
    /\ hsLog' = NoLog
    /\ UNCHANGED historyList

\* The probe of the next date settles and the loop moves on.
HsProbe ==
    /\ hsPc = "probing"
    /\ hsIdx < HISTORY_LIMIT
    /\ \E o \in net :
        LET dates == getRecentDates(HISTORY_LIMIT)
            i == hsIdx + 1
        IN  /\ hsAvail' = IF probeAccepts(o) THEN Append(hsAvail, dates[i]) ELSE hsAvail
            /\ hsLog' = [hsLog EXCEPT ![i] = ProbeClass(o)]
            /\ hsIdx' = i
            /\ UNCHANGED <<hsPc, historyList>>

\* After the loop: the list is rendered from availableDates and returned.
HsRender ==
    /\ hsPc = "probing"
    /\ hsIdx = HISTORY_LIMIT
    /\ historyList' = hsAvail
    /\ hsPc' = "done"
    /\ UNCHANGED <<hsIdx, hsAvail, hsLog>>

\* C9: a date of the 7 most recent local dates is listed if and only if its probe
\* returned an OK status and a body whose trimmed text starts with '#'; a probe that
\* throws lists nothing and the loop goes on to the remaining dates.
C9_ListedIffReport ==
    LET dates == getRecentDates(HISTORY_LIMIT)
    IN  /\ hsPc = "probing" =>
            /\ \A i \in 1..hsIdx :
                    (dates[i] \in Range(hsAvail)) <=> (hsLog[i] = "report")
            /\ Range(hsAvail) \subseteq {dates[i] : i \in 1..hsIdx}
        /\ hsPc = "done" =>
            /\ \A i \in 1..HISTORY_LIMIT :
                    /\ hsLog[i] # "none"
                    /\ (dates[i] \in Range(historyList)) <=> (hsLog[i] = "report")
            /\ Range(historyList) \subseteq Range(dates)

\* C9 witness: the list is rendered after today's probe threw, yesterday's returned
\* 200 with a body that is no report, a non-success status was seen, and two later
\* dates were listed.
C9_Witness ==
    /\ hsPc = "done"
    /\ hsLog[1] = "threw"
    /\ hsLog[2] = "okNotReport"
    /\ hsLog[3] = "report"
    /\ hsLog[4] = "notOk"
    /\ hsLog[7] = "report"
    /\ Len(historyList) = 2

(***************************************************************************)
(*   Report display: showNews, loadMarkdown, renderMarkdown, hashchange    *)
(***************************************************************************)
MaxLoads == 2        \* showNews calls in flight at once
MaxHashEvents == 2   \* hashchange events pending at once

\* Fragments a user can put in the address bar: none, a word, a date older than the
\* probe window, yesterday, today.
HashInputs == {"", "about", DateStrings[1], DateStrings[TodayIdx - 1], DateStrings[TodayIdx]}

\* /^\d{4}-\d{2}-\d{2}$/.test(dateStr)
IsDateLike(str) == str \in Range(DateStrings)

\* Every date showNews can be called with.
ShowDates == {h \in HashInputs : IsDateLike(h)} \cup Range(getRecentDates(HISTORY_LIMIT))

\* The markdown value loadMarkdown returns: null, or the text of the response.
NullMarkdown == [isNull |-> TRUE, text |-> <<>>]
Markdown(text) == [isNull |-> FALSE, text |-> text]

\* loadMarkdown(dateStr) for one settled fetch: a rejected fetch, a non-success status
\* or a rejected text() end in the catch block, which returns null.
loadMarkdown(o) ==
    IF o.kind = "fetchThrows" THEN NullMarkdown
    ELSE IF ~ResponseOk(o.status) THEN NullMarkdown
    ELSE IF o.kind = "textThrows" THEN NullMarkdown
    ELSE Markdown(o.body)

\* What the content region can show.
Skeleton == [kind |-> "skeleton", date |-> "", body |-> <<>>]
EmptyState == [kind |-> "empty", date |-> "", body |-> <<>>]
InitialContent == [kind |-> "initial", date |-> "", body |-> <<>>]

\* renderMarkdown(markdown): the empty state for a falsy value (null, ''), else the
\* parsed markdown.
renderMarkdown(markdown) ==
    IF markdown.isNull \/ markdown.text = <<>>
    THEN EmptyState
    ELSE [kind |-> "report", date |-> "", body |-> markdown.text]

NoLoads == [d \in ShowDates |-> 0]
LoadCount == LET RECURSIVE Sum(_)
                 Sum(S) == IF S = {} THEN 0
                           ELSE LET d == CHOOSE x \in S : TRUE
                                IN  nwLoads[d] + Sum(S \ {d})
             IN  Sum(ShowDates)

NoRender == [date |-> "", class |-> "none", shown |-> "none"]

NwInit ==
    /\ nwContent = InitialContent
    /\ nwDateLabel = ""
    /\ nwBadge = FALSE
    /\ nwBackVisible = FALSE
    /\ nwHash = ""
    /\ nwHashEvents = 0
    /\ nwLoads = NoLoads
    /\ nwLastRender = NoRender

\* showNews(dateStr) up to its await: skeleton, date label, then the fetch.
showNewsStart(dateStr) ==
    /\ LoadCount < MaxLoads
    /\ nwContent' = Skeleton
    /\ nwDateLabel' = dateStr
    /\ nwLoads' = [nwLoads EXCEPT ![dateStr] = @ + 1]
    /\ UNCHANGED <<nwBadge, nwBackVisible, nwLastRender>>

\* window.location.hash = value: a hashchange event is dispatched when it changes.
SetHash(value) ==
    /\ nwHash' = value
    /\ nwHashEvents' = IF value # nwHash THEN nwHashEvents + 1 ELSE nwHashEvents

\* A click on an item of the history list.
NwClickHistory ==
    \E dateStr \in Range(historyList) :
        /\ showNewsStart(dateStr)
        /\ UNCHANGED <<nwHash, nwHashEvents>>

\* A click on the back-to-today control, shown while another date is viewed.
NwBackToToday ==
    /\ nwBackVisible
    /\ showNewsStart(getTodayStr)
    /\ UNCHANGED <<nwHash, nwHashEvents>>

\* The user changes the fragment in the address bar.
NwUserHash ==
    \E h \in HashInputs :
        /\ h # nwHash
        /\ nwHashEvents < MaxHashEvents
        /\ SetHash(h)
        /\ UNCHANGED <<nwContent, nwDateLabel, nwBadge, nwBackVisible, nwLoads, nwLastRender>>

\* The hashchange listener runs for one pending event.
NwHashChange ==
    /\ nwHashEvents > 0
    /\ IF nwHash # "" /\ IsDateLike(nwHash)
       THEN /\ showNewsStart(nwHash)
            /\ nwHashEvents' = nwHashEvents - 1
            /\ UNCHANGED nwHash
       ELSE /\ nwHashEvents' = nwHashEvents - 1
            /\ UNCHANGED <<nwContent, nwDateLabel, nwBadge, nwBackVisible, nwHash, nwLoads,
                           nwLastRender>>

\* What the content region holds once the response of showNews(dateStr) has arrived:
\* renderMarkdown runs for every response, whatever was requested since.
Mut_contentAfterLoad_DropStale(dateStr, o, label, content) ==
    IF dateStr = label
    THEN [renderMarkdown(loadMarkdown(o)) EXCEPT !.date = dateStr]
    ELSE content

contentAfterLoad(dateStr, o, label, content) ==
    [renderMarkdown(loadMarkdown(o)) EXCEPT !.date = dateStr]

\* showNews(dateStr) after its await: renderMarkdown, the today badge, the
\* back-to-today control and the URL fragment.
showNewsFinish(dateStr, o) ==
    LET isToday == dateStr = getTodayStr
    IN  /\ nwLoads' = [nwLoads EXCEPT ![dateStr] = @ - 1]
        /\ nwContent' = contentAfterLoad(dateStr, o, nwDateLabel, nwContent)
        /\ nwLastRender' = [date |-> dateStr, class |-> ProbeClass(o),
                            shown |-> renderMarkdown(loadMarkdown(o)).kind]
        /\ nwBadge' = isToday
        /\ nwBackVisible' = ~isToday
        /\ SetHash(dateStr)
        /\ UNCHANGED nwDateLabel

\* The showNews calls for dateStr that refresh() is awaiting.
AwaitedByRefresh(dateStr) ==
    (IF rfPc = "showing" /\ rfTarget = dateStr THEN 1 ELSE 0)
    + Cardinality({c \in DOMAIN rcCycles :
                      rcCycles[c].pc = "showing" /\ rcCycles[c].target = dateStr})

\* The fetch of one showNews call started by a click or by the hashchange listener
\* settles.
NwLoadSettles ==
    \E dateStr \in {d \in ShowDates : /\ nwLoads[d] > AwaitedByRefresh(d)
                                      /\ (d = nwHash \/ nwHashEvents < MaxHashEvents)},
       o \in net :
        showNewsFinish(dateStr, o)

\* C10 as stated: a date whose report is missing or invalid (fetch failed, status not
\* a success, or success body whose trimmed text does not begin with '#') is rendered
\* as the fixed "no content" empty state, never as the fetched body.
C10_Claim ==
    (nwLastRender.class \in {"threw", "notOk", "okNotReport"}) =>
        nwLastRender.shown = "empty"

\* C12: no response is discarded as stale: every response that arrives is rendered
\* into the content region, so the content shown is that of the response that arrived
\* last, for whichever date it was requested, also when the label shows another date.
C12_LastArrivalWins ==
    /\ nwContent.kind \in {"report", "empty"} =>
          /\ nwLastRender.class # "none"
          /\ nwContent.date = nwLastRender.date
          /\ nwContent.kind = nwLastRender.shown
    /\ (LoadCount = 0 /\ nwLastRender.class # "none") =>
          /\ nwContent.kind \in {"report", "empty"}
          /\ nwContent.date = nwLastRender.date

\* Two loads were in flight; the one started first arrived last: its report is on
\* screen under the label of the other date, and nothing is in flight any more.
C12_Witness ==
    /\ LoadCount = 0
    /\ nwContent.kind = "report"
    /\ nwDateLabel # ""
    /\ nwContent.date # nwDateLabel

(***************************************************************************)
(* website/app.js: refresh                                                 *)
(***************************************************************************)
\* The content region of refresh() when no date is available ("no news yet").
NoNews == [kind |-> "nonews", date |-> "", body |-> <<>>]

\* dates.includes(hashDate) ? hashDate : dates[0]
Mut_refreshTarget_Newest(dates, hashDate) == dates[1]

refreshTarget(dates, hashDate) ==
    IF hashDate \in Range(dates) THEN hashDate ELSE dates[1]

NoSeen == [hash |-> "", dates |-> <<>>, loads |-> 0]

RfInit ==
    /\ nwStatus = "initial"
    /\ rfPc = "idle"
    /\ rfTarget = ""
    /\ rfSeen = NoSeen

\* refresh() up to the first await of initHistoryList: status, skeleton, and the
\* probe loop starts.
RfStart ==
    /\ rfPc = "idle"
    /\ HsStart
    /\ rfPc' = "probing"
    /\ nwStatus' = "refreshing"
    /\ nwContent' = Skeleton
    /\ UNCHANGED <<rfTarget, rfSeen, nwDateLabel, nwBadge, nwBackVisible, nwHash,
                   nwHashEvents, nwLoads, nwLastRender>>

\* initHistoryList returns: the list is rendered, and refresh() goes on in the same
\* turn, to showNews(targetDate) up to its await, or to the "no news yet" state.
RfAfterList ==
    /\ rfPc = "probing"
    /\ HsRender
    /\ rfSeen' = [hash |-> nwHash, dates |-> hsAvail, loads |-> LoadCount]
    /\ IF Len(hsAvail) > 0
       THEN LET targetDate == refreshTarget(hsAvail, nwHash)
            IN  /\ showNewsStart(targetDate)
                /\ rfTarget' = targetDate
                /\ rfPc' = "showing"
                /\ UNCHANGED <<nwStatus, nwHash, nwHashEvents>>
       ELSE /\ nwContent' = NoNews
            /\ nwStatus' = "online"
            /\ rfPc' = "done"
            /\ UNCHANGED <<rfTarget, nwDateLabel, nwBadge, nwBackVisible, nwHash,
                           nwHashEvents, nwLoads, nwLastRender>>

\* The showNews call refresh() awaits settles, and refresh() sets the status.
RfLoadSettles ==
    /\ rfPc = "showing"
    /\ rfTarget = nwHash \/ nwHashEvents < MaxHashEvents
    /\ \E o \in net : showNewsFinish(rfTarget, o)
    /\ nwStatus' = "online"
    /\ rfPc' = "done"
    /\ UNCHANGED <<rfTarget, rfSeen, hsVars>>

\* C11: with at least one available date, refresh() shows the date of the URL
\* fragment when that date is in the available list and the newest available date
\* otherwise; with none it shows the "no news yet" state and loads no report.
C11_RefreshTarget ==
    /\ (rfPc \in {"showing", "done"} /\ Len(rfSeen.dates) > 0) =>
          /\ rfTarget = IF \E i \in 1..Len(rfSeen.dates) : rfSeen.dates[i] = rfSeen.hash
                        THEN rfSeen.hash
                        ELSE rfSeen.dates[1]
          /\ nwDateLabel = rfTarget
          /\ rfPc = "showing" => nwLoads[rfTarget] > 0
          /\ rfPc = "done" => nwLastRender.date = rfTarget
          /\ nwContent.kind \in {"report", "empty"} => nwContent.date = rfTarget
    /\ (rfPc = "done" /\ Len(rfSeen.dates) = 0) =>
          /\ nwContent = NoNews
          /\ LoadCount = 0
          /\ nwLastRender = NoRender
    /\ rfPc = "done" => nwStatus = "online"

\* Today and yesterday are available and no fragment is set: today's report is shown.
C11_Witness ==
    /\ rfPc = "done"
    /\ rfSeen.hash = ""
    /\ rfSeen.dates = <<DateStrings[TodayIdx], DateStrings[TodayIdx - 1]>>
    /\ nwContent.kind = "report"
    /\ nwContent.date = getTodayStr

(***************************************************************************)
(* website/app.js: StreakManager                                           *)
(***************************************************************************)
\* Midnights the model lets pass.
MaxDays == 8

\* The date of the first page load; the days that follow cross 29 February and the
\* end of a month.
StartDate == <<2024, 2, 26>>

IsLeap(y) == (y % 4 = 0 /\ y % 100 # 0) \/ y % 400 = 0

DaysInMonth(y, m) ==
    IF m = 2 THEN (IF IsLeap(y) THEN 29 ELSE 28)
    ELSE IF m \in {4, 6, 9, 11} THEN 30 ELSE 31

\* The calendar date after date.
NextDay(date) ==
    LET y == date[1]
        m == date[2]
        d == date[3]
    IN  IF d < DaysInMonth(y, m) THEN <<y, m, d + 1>>
        ELSE IF m < 12 THEN <<y, m + 1, 1>>
        ELSE <<y + 1, 1, 1>>

\* new Date('YYYY-MM-DD'): a date-only string is UTC midnight of that date; the value
\* is given in days since the epoch (the millisecond value is 86400000 times it).
DateParse(str) ==
    LET y == IF str[2] <= 2 THEN str[1] - 1 ELSE str[1]
        era == y \div 400
        yoe == y - era * 400
        mp == (str[2] + 9) % 12
        doy == (153 * mp + 2) \div 5 + str[3] - 1
        doe == yoe * 365 + yoe \div 4 - yoe \div 100 + doy
    IN  era * 146097 + doe - 719468

\* Math.floor((todayDate - lastDate) / (1000 * 60 * 60 * 24))
diffDays(lastVisitDate, today) == DateParse(today) - DateParse(lastVisitDate)

\* The messages of update(): first day, 7 days in a row, 3 days in a row, none.
MsgFirstDay == "first-day"
Msg7Days == "7-days"
Msg3Days == "3-days"
NoMessage == ""

\* The message of a consecutive-day increment.
Mut_streakMessage_FromThree(newStreak) ==
    IF newStreak >= 7 THEN Msg7Days
    ELSE IF newStreak >= 3 THEN Msg3Days
    ELSE NoMessage

streakMessage(newStreak) ==
    IF newStreak = 7 THEN Msg7Days
    ELSE IF newStreak = 3 THEN Msg3Days
    ELSE NoMessage

\* A date that was never stored (null).
NullDate == <<>>

\* The three branches of update() on the stored record and today's date.
Mut_streakAfter_NoReset(lastVisitDate, streakDays, today) ==
    IF lastVisitDate = NullDate
    THEN [streakDays |-> 1, isNewDay |-> TRUE, message |-> MsgFirstDay]
    ELSE IF lastVisitDate = today
    THEN [streakDays |-> streakDays, isNewDay |-> FALSE, message |-> NoMessage]
    ELSE [streakDays |-> streakDays + 1, isNewDay |-> TRUE,
          message |-> streakMessage(streakDays + 1)]

streakAfter(lastVisitDate, streakDays, today) ==
    IF lastVisitDate = NullDate
    THEN [streakDays |-> 1, isNewDay |-> TRUE, message |-> MsgFirstDay]
    ELSE IF lastVisitDate = today
    THEN [streakDays |-> streakDays, isNewDay |-> FALSE, message |-> NoMessage]
    ELSE IF diffDays(lastVisitDate, today) = 1
    THEN [streakDays |-> streakDays + 1, isNewDay |-> TRUE,
          message |-> streakMessage(streakDays + 1)]
    ELSE [streakDays |-> 1, isNewDay |-> TRUE, message |-> NoMessage]

\* A localStorage slot that holds a JSON object: absent, the JSON text of a record, or
\* a text that is not JSON.
DefaultStreak == [lastVisitDate |-> NullDate, streakDays |-> 0]
StreakAbsent == [kind |-> "absent", data |-> DefaultStreak]
StreakJson(data) == [kind |-> "json", data |-> data]
StreakGarbage == [kind |-> "garbage", data |-> DefaultStreak]

\* StreakManager.get(): data ? JSON.parse(data) : default. JSON.parse throws a
\* SyntaxError on a text that is not JSON.
StreakManager_get(slot) ==
    [threw |-> slot.kind = "garbage",
     value |-> IF slot.kind = "json" THEN slot.data ELSE DefaultStreak]

\* StreakManager.update(): the new slot and the returned record; an exception of
\* get() leaves the slot as it was.
StreakManager_update(slot, today) ==
    LET got == StreakManager_get(slot)
        ret == streakAfter(got.value.lastVisitDate, got.value.streakDays, today)
    IN  [threw |-> got.threw,
         storage |-> IF got.threw THEN slot
                     ELSE StreakJson([lastVisitDate |-> today, streakDays |-> ret.streakDays]),
         ret |-> ret]

NoStreakCall == [made |-> FALSE, pre |-> DefaultStreak, today |-> NullDate,
                 ret |-> [streakDays |-> 0, isNewDay |-> FALSE, message |-> NoMessage],
                 toast |-> FALSE]

StInit ==
    /\ clockDate = StartDate
    /\ clockDays = 0
    /\ streakStorage = StreakAbsent
    /\ streakCall = NoStreakCall

\* The page is loaded: update() runs, and the welcome toast is shown for a new day
\* with a message.
StVisit ==
    LET r == StreakManager_update(streakStorage, clockDate)
    IN  /\ ~r.threw
        /\ streakStorage' = r.storage
        /\ streakCall' = [made |-> TRUE, pre |-> StreakManager_get(streakStorage).value,
                          today |-> clockDate, ret |-> r.ret,
                          toast |-> (r.ret.isNewDay /\ r.ret.message # NoMessage)]
        /\ UNCHANGED <<clockDate, clockDays>>

\* Midnight passes.
StMidnight ==
    /\ clockDays < MaxDays
    /\ clockDate' = NextDay(clockDate)
    /\ clockDays' = clockDays + 1
    /\ UNCHANGED <<streakStorage, streakCall>>

RECURSIVE DayAfter(_, _)
DayAfter(date, n) == IF n = 0 THEN date ELSE DayAfter(NextDay(date), n - 1)

\* The user sets the clock (or changes the time zone) to an earlier date.
StClockBack ==
    \E n \in 0..(MaxDays - 1) :
        /\ n < clockDays
        /\ clockDate' = DayAfter(StartDate, n)
        /\ clockDays' = n
        /\ UNCHANGED <<streakStorage, streakCall>>

\* The streak the documentation gives for a stored record and today's date.
DocumentedStreak(pre, today) ==
    IF pre.lastVisitDate = NullDate THEN 1
    ELSE IF pre.lastVisitDate = today THEN pre.streakDays
    ELSE IF NextDay(pre.lastVisitDate) = today THEN pre.streakDays + 1
    ELSE 1

\* C13: update() gives streak 1 when there was no visit, the stored streak when the
\* last visit was today, the stored streak plus one when today is the calendar day
\* after the last visit, and 1 for any other gap; it stores today and the new streak.
C13_StreakRule ==
    streakCall.made =>
        /\ streakCall.ret.streakDays = DocumentedStreak(streakCall.pre, streakCall.today)
        /\ streakStorage = StreakJson([lastVisitDate |-> streakCall.today,
                                       streakDays |-> streakCall.ret.streakDays])

\* A visit on 1 March after a visit on 29 February raised the streak to 5.
C13_Witness ==
    /\ streakCall.made
    /\ streakCall.pre = [lastVisitDate |-> <<2024, 2, 29>>, streakDays |-> 4]
    /\ streakCall.today = <<2024, 3, 1>>
    /\ streakCall.ret.streakDays = 5

\* C14: update() returns a message, and the welcome toast is shown, in three cases
\* only: the first visit, and a consecutive-day increment that brings the streak to
\* exactly 3 or exactly 7.
C14_MessageCases ==
    streakCall.made =>
        LET pre == streakCall.pre
            first == pre.lastVisitDate = NullDate
            step == /\ ~first
                    /\ pre.lastVisitDate # streakCall.today
                    /\ NextDay(pre.lastVisitDate) = streakCall.today
        IN  /\ streakCall.ret.message # NoMessage <=>
                  (first \/ (step /\ pre.streakDays + 1 \in {3, 7}))
            /\ first => streakCall.ret.message = MsgFirstDay
            /\ (step /\ pre.streakDays + 1 = 3) => streakCall.ret.message = Msg3Days
            /\ (step /\ pre.streakDays + 1 = 7) => streakCall.ret.message = Msg7Days
            /\ streakCall.toast <=> streakCall.ret.message # NoMessage

\* The seventh consecutive day: the 7-day message in a toast.
C14_Witness ==
    /\ streakCall.made
    /\ streakCall.pre.streakDays = 6
    /\ streakCall.ret.message = Msg7Days
    /\ streakCall.toast

(***************************************************************************)
(* website/app.js: the DOMContentLoaded handler                            *)
(***************************************************************************)
\* What the two slots can hold when the page is loaded: nothing, what the page wrote
\* on an earlier visit, or any other text.
BootFavSlots ==
    {Absent, NotJson}
    \cup {Stored(JSON_stringify(list)) :
            list \in {<<>>} \cup {<<[url |-> u, title |-> "t1"]>> : u \in Urls}}

BootStreakSlots ==
    {StreakAbsent, StreakGarbage}
    \cup {StreakJson([lastVisitDate |-> DayAfter(StartDate, n), streakDays |-> k]) :
            n \in 0..2, k \in {1, 2, 6}}

\* renderFavoritesSidebar(): the list is read with FavoritesManager.get().
BootSidebar ==
    /\ bootPc = "loading"
    /\ bootPc' = IF FavoritesManager_getThrows(favStorage) THEN "failed" ELSE "sidebar"
    /\ UNCHANGED <<favVars, stVars, hsVars, nwVars, rfVars>>

\* StreakManager.update(), the streak display and the welcome toast.
BootStreak ==
    LET r == StreakManager_update(streakStorage, clockDate)
    IN  /\ bootPc = "sidebar"
        /\ bootPc' = IF r.threw THEN "failed" ELSE "streak"
        /\ streakStorage' = r.storage
        /\ streakCall' = IF r.threw THEN streakCall
                         ELSE [made |-> TRUE, pre |-> StreakManager_get(streakStorage).value,
                               today |-> clockDate, ret |-> r.ret,
                               toast |-> (r.ret.isNewDay /\ r.ret.message # NoMessage)]
        /\ UNCHANGED <<clockDate, clockDays, favVars, hsVars, nwVars, rfVars>>

\* await refresh(): the first refresh starts.
BootRefresh ==
    /\ bootPc = "streak"
    /\ bootPc' = "refresh"
    /\ RfStart
    /\ UNCHANGED <<favVars, stVars>>

\* C15 as stated: reading a persisted value gives the documented default when the
\* stored text is absent or unparsable and never propagates an error, so the handler
\* goes on to the first refresh whatever the slots hold.
C15_Claim == bootPc # "failed"

(***************************************************************************)
(* website/app.js: PreviewManager, the split ratio                         *)
(***************************************************************************)
\* A Number: ratios are counted in hundredths (0.5 is Num(50)); NaN is a value.
Num(pct) == [nan |-> FALSE, pct |-> pct]
NaN == [nan |-> TRUE, pct |-> 0]

\* The raw ratios x / wrapperRect.width of the pointer positions of a drag.
RawPcts == {5, 20, 35, 50, 80, 95}

\* What localStorage can hold under the key: nothing, the empty text, the decimal text
\* of a number, or a text that is not a number.
SlotAbsent == [kind |-> "absent", pct |-> 0]
SlotEmpty == [kind |-> "empty", pct |-> 0]
SlotNumber(pct) == [kind |-> "number", pct |-> pct]
SlotText == [kind |-> "text", pct |-> 0]
SplitSlots == {SlotAbsent, SlotEmpty, SlotText} \cup {SlotNumber(p) : p \in {5, 20, 50, 80, 95}}

\* parseFloat(text): the number a decimal text denotes, NaN for any other text.
parseFloat(slot) == IF slot.kind = "number" THEN Num(slot.pct) ELSE NaN

\* Number.prototype.toString(): the decimal text, "NaN" for NaN.
toString(n) == IF n.nan THEN SlotText ELSE SlotNumber(n.pct)

\* Math.max(0.2, Math.min(0.8, r))
Clamp(r) ==
    LET min == IF 80 < r THEN 80 ELSE r
    IN  IF 20 > min THEN 20 ELSE min

\* The value after initDraggable has read the slot: a non-empty text is parsed and
\* assigned as it is.
restoredRatio(slot, ratio) ==
    IF slot.kind \in {"absent", "empty"} THEN ratio ELSE parseFloat(slot)

NoMove == [moved |-> FALSE, raw |-> 0]
NoRelease == [made |-> FALSE, moved |-> FALSE, raw |-> 0]

SpInit ==
    /\ splitSlot = SlotAbsent
    /\ splitRatio = Num(50)
    /\ contentWidth = "unset"
    /\ splitInited = FALSE
    /\ isDragging = FALSE
    /\ rafPending = FALSE
    /\ rafRatio = 0
    /\ dragLast = NoMove
    /\ dragRelease = NoRelease

\* initDraggable(), up to the listeners: the persisted ratio is restored.
SpInitDraggable ==
    /\ ~splitInited
    /\ splitInited' = TRUE
    /\ splitRatio' = restoredRatio(splitSlot, splitRatio)
    /\ contentWidth' = IF splitSlot.kind \in {"absent", "empty"} THEN contentWidth
                       ELSE "set"
    /\ UNCHANGED <<splitSlot, isDragging, rafPending, rafRatio, dragLast, dragRelease>>

\* startDrag: pointerdown on the divider.
SpStartDrag ==
    /\ splitInited
    /\ ~isDragging
    /\ isDragging' = TRUE
    /\ dragLast' = NoMove
    /\ UNCHANGED <<splitSlot, splitRatio, contentWidth, splitInited, rafPending, rafRatio,
                   dragRelease>>

\* pointermove during a drag: updateRatio(clientX). A move that finds a frame
\* requested returns without recording its ratio.
SpPointerMove ==
    /\ isDragging
    /\ \E raw \in RawPcts :
        /\ dragLast' = [moved |-> TRUE, raw |-> raw]
        /\ IF rafPending
           THEN UNCHANGED <<rafPending, rafRatio>>
           ELSE /\ rafPending' = TRUE
                /\ rafRatio' = Clamp(raw)
    /\ UNCHANGED <<splitSlot, splitRatio, contentWidth, splitInited, isDragging, dragRelease>>

\* The requested animation frame runs.
SpAnimationFrame ==
    /\ rafPending
    /\ splitRatio' = Num(rafRatio)
    /\ contentWidth' = "set"
    /\ rafPending' = FALSE
    /\ UNCHANGED <<splitSlot, splitInited, isDragging, rafRatio, dragLast, dragRelease>>

\* endDrag: pointerup or pointercancel. A requested frame is cancelled, then
\* splitRatio is persisted.
SpEndDrag ==
    /\ isDragging
    /\ isDragging' = FALSE
    /\ rafPending' = FALSE
    /\ splitSlot' = toString(splitRatio)
    /\ dragRelease' = [made |-> TRUE, moved |-> dragLast.moved, raw |-> dragLast.raw]
    /\ UNCHANGED <<splitRatio, contentWidth, splitInited, rafRatio, dragLast>>

\* C16 as stated: the split ratio lies in [0.2, 0.8] in every reachable state, also
\* after the persisted value was restored, whatever the slot held.
C16_Claim == ~splitRatio.nan /\ splitRatio.pct \in 20..80

\* C17 as stated: after a drag whose last pointer position has raw ratio r, the
\* release persists r clamped to [0.2, 0.8], whatever frames ran in between.
C17_Claim ==
    (dragRelease.made /\ dragRelease.moved /\ ~isDragging) =>
        splitSlot = SlotNumber(Clamp(dragRelease.raw))

(***************************************************************************)
(* website/app.js: PreviewManager, open and close                          *)
(***************************************************************************)
\* open() calls the model follows.
MaxOpens == 3

\* The links a report can hold: an arXiv paper, a site of the blocklist, two others, a
\* host that ends in the letters of a blocklisted domain, a path that names one, and
\* a link without a scheme.
PreviewUrls == {"https://arxiv.org/abs/2401.00001", "https://www.github.com/a",
                "https://example.com/a", "https://example.org/b",
                "https://netflix.com/a", "https://example.org/github.com",
                "example.com/a"}

\* The text of a link, cut into the pieces the string tests of PreviewManager can
\* tell apart.
UrlText(url) ==
    CASE url = "https://arxiv.org/abs/2401.00001" ->
             <<"https:", "//", "arxiv.org", "/", "abs", "/", "2401.00001">>
      [] url = "https://www.github.com/a" -> <<"https:", "//", "www.", "github.com", "/", "a">>
      [] url = "https://example.com/a" -> <<"https:", "//", "example.com", "/", "a">>
      [] url = "https://example.org/b" -> <<"https:", "//", "example.org", "/", "b">>
      [] url = "https://netflix.com/a" -> <<"https:", "//", "netfli", "x.com", "/", "a">>
      [] url = "https://example.org/github.com" ->
             <<"https:", "//", "example.org", "/", "github.com">>
      [] url = "example.com/a" -> <<"example.com", "/", "a">>

\* String.prototype.indexOf: the first position at which pattern occurs in text, 0 if
\* it does not occur.
IndexOf(text, pattern) ==
    LET hits == {i \in 1..(Len(text) - Len(pattern) + 1) :
                    SubSeq(text, i, i + Len(pattern) - 1) = pattern}
    IN  IF hits = {} THEN 0 ELSE CHOOSE i \in hits : \A j \in hits : i <= j

\* String.prototype.includes
includes(text, pattern) == IndexOf(text, pattern) # 0

\* new URL(text) without a base: it throws unless the text starts with a scheme; the
\* hostname of an http(s) url runs from the double slash to the first slash.
ParseHost(text) ==
    IF Len(text) >= 3 /\ text[1] \in {"http:", "https:"} /\ text[2] = "//" /\ text[3] # "/"
    THEN LET rest == SubSeq(text, 3, Len(text))
             slash == IndexOf(rest, <<"/">>)
         IN  [ok |-> TRUE,
              hostname |-> IF slash = 0 THEN rest ELSE SubSeq(rest, 1, slash - 1)]
    ELSE [ok |-> FALSE, hostname |-> <<>>]

\* url.includes('arxiv.org/')
IncludesArxiv(url) == includes(UrlText(url), <<"arxiv.org", "/">>)

blockedDomains ==
    {<<"github.com">>, <<"github.io">>, <<"reddit.com">>, <<"twitter.com">>, <<"x.com">>,
     <<"youtube.com">>, <<"medium.com">>, <<"zhihu.com">>, <<"juejin.cn">>,
     <<"bilibili.com">>, <<"stackoverflow.com">>, <<"v2ex.com">>,
     <<"news.ycombinator.com">>, <<"producthunt.com">>}

Mut_isEmbeddable_FailClosed(url) ==
    /\ ParseHost(UrlText(url)).ok
    /\ ~\E domain \in blockedDomains : includes(ParseHost(UrlText(url)).hostname, domain)

\* isEmbeddable(url): no domain of the blocklist occurs in the hostname; true when
\* new URL(url) throws.
isEmbeddable(url) ==
    IF ParseHost(UrlText(url)).ok
    THEN ~\E domain \in blockedDomains : includes(ParseHost(UrlText(url)).hostname, domain)
    ELSE TRUE

Blank == "about:blank"

\* What open() and the watchdogs did: the url of the last open(), what isEmbeddable
\* returned for it, whether open() left the error panel shown, whether the load
\* event of its page was handled, whether its watchdog ran, whether that watchdog
\* left a pane with no page loaded and no panel without the error panel (silent), and
\* whether it showed the error panel after the load event (late).
NoTrace == [firedClosed |-> FALSE, errorBy |-> 0, errorLatest |-> 0, url |-> "",
            embeddable |-> TRUE, errorAtOnce |-> FALSE, targetLoaded |-> FALSE,
            expired |-> FALSE, silent |-> FALSE, late |-> FALSE]

PvInit ==
    /\ splitMode = FALSE
    /\ currentUrl = ""
    /\ frameSrc = Blank
    /\ frameNav = FALSE
    /\ loadingShown = FALSE
    /\ errorShown = FALSE
    /\ specialShown = FALSE
    /\ loadTimeoutId = 0
    /\ deferred = <<>>
    /\ watchdogs = <<>>
    /\ opens = 0
    /\ pvClosed = FALSE
    /\ pvTrace = NoTrace

\* clearTimeout(id): the timer is no longer pending; nothing for a timer that ran.
clearTimeout(timers, id) == SelectSeq(timers, LAMBDA t : t # id)

\* open(url, title): a click on a link of the report.
PvOpen ==
    /\ opens < MaxOpens
    /\ \E url \in PreviewUrls :
        /\ opens' = opens + 1
        /\ pvClosed' = FALSE
        /\ currentUrl' = url
        /\ splitMode' = TRUE
        /\ contentWidth' = "set"
        /\ IF IncludesArxiv(url)
           THEN \* showSpecial(title); return
                /\ loadingShown' = FALSE
                /\ errorShown' = FALSE
                /\ specialShown' = TRUE
                /\ UNCHANGED <<frameSrc, frameNav, loadTimeoutId, deferred, watchdogs>>
           ELSE IF ~isEmbeddable(url)
           THEN \* showError(); return
                /\ loadingShown' = FALSE
                /\ errorShown' = TRUE
                /\ UNCHANGED <<specialShown, frameSrc, frameNav, loadTimeoutId, deferred,
                               watchdogs>>
           ELSE /\ frameSrc' = Blank
                /\ frameNav' = TRUE
                /\ loadingShown' = TRUE
                /\ errorShown' = FALSE
                /\ specialShown' = FALSE
                /\ watchdogs' = IF loadTimeoutId # 0
                                THEN clearTimeout(watchdogs, loadTimeoutId)
                                ELSE watchdogs
                /\ loadTimeoutId' = 0
                /\ deferred' = Append(deferred, [id |-> opens + 1, url |-> url])
        /\ pvTrace' = [pvTrace EXCEPT !.url = url, !.embeddable = isEmbeddable(url),
                                      !.errorAtOnce = errorShown',
                                      !.targetLoaded = FALSE, !.expired = FALSE]

\* The 50 ms timer of an open() runs: the frame is sent to the url and the watchdog
\* is armed.
PvDeferredLoad ==
    /\ deferred # <<>>
    /\ LET d == Head(deferred)
       IN  /\ deferred' = Tail(deferred)
           /\ frameSrc' = d.url
           /\ frameNav' = TRUE
           /\ loadTimeoutId' = d.id
           /\ watchdogs' = Append(watchdogs, d.id)
    /\ UNCHANGED <<splitMode, currentUrl, loadingShown, errorShown, specialShown, opens,
                   pvClosed, pvTrace, contentWidth>>

\* A watchdog expires: the error panel is shown if the pane is still loading.
PvWatchdog ==
    /\ watchdogs # <<>>
    /\ LET id == Head(watchdogs)
           stillLoading == loadingShown /\ ~errorShown /\ ~specialShown
       IN  /\ watchdogs' = Tail(watchdogs)
           /\ loadingShown' = IF stillLoading THEN FALSE ELSE loadingShown
           /\ errorShown' = IF stillLoading THEN TRUE ELSE errorShown
           /\ pvTrace' =
                  [pvTrace EXCEPT
                      !.firedClosed = @ \/ pvClosed,
                      !.errorBy = IF stillLoading THEN id ELSE @,
                      !.errorLatest = IF stillLoading THEN opens ELSE @,
                      !.expired = @ \/ id = opens,
                      !.silent = @ \/ (/\ id = opens /\ ~pvClosed /\ ~pvTrace.targetLoaded
                                       /\ ~errorShown /\ ~specialShown /\ ~stillLoading),
                      !.late = @ \/ (id = opens /\ pvTrace.targetLoaded /\ stillLoading)]
    /\ loadTimeoutId' = 0
    /\ UNCHANGED <<splitMode, currentUrl, frameSrc, frameNav, specialShown, deferred, opens,
                   pvClosed, contentWidth>>

\* The load event of the frame: onIframeLoad().
PvFrameLoad ==
    /\ frameNav
    /\ frameNav' = FALSE
    /\ loadingShown' = FALSE
    /\ pvTrace' = [pvTrace EXCEPT !.targetLoaded = @ \/ (frameSrc # Blank /\ frameSrc = currentUrl)]
    /\ UNCHANGED <<splitMode, currentUrl, frameSrc, errorShown, specialShown, loadTimeoutId,
                   deferred, watchdogs, opens, pvClosed, contentWidth>>

\* The error event of the frame: showError().
PvFrameError ==
    /\ frameNav
    /\ frameNav' = FALSE
    /\ loadingShown' = FALSE
    /\ errorShown' = TRUE
    /\ UNCHANGED <<splitMode, currentUrl, frameSrc, specialShown, loadTimeoutId, deferred,
                   watchdogs, opens, pvClosed, pvTrace, contentWidth>>

\* close(): a click on the close button.
PvClose ==
    /\ splitMode
    /\ splitMode' = FALSE
    /\ currentUrl' = ""
    /\ frameSrc' = Blank
    /\ frameNav' = TRUE
    /\ contentWidth' = "unset"
    /\ watchdogs' = IF loadTimeoutId # 0 THEN clearTimeout(watchdogs, loadTimeoutId)
                    ELSE watchdogs
    /\ loadTimeoutId' = 0
    /\ pvClosed' = TRUE
    /\ UNCHANGED <<loadingShown, errorShown, specialShown, deferred, opens, pvTrace>>

\* C18 as stated: from close() to the next open() the pane is out of split mode, the
\* frame stays on the blank placeholder, and no watchdog is pending or expires.
C18_Claim ==
    pvClosed =>
        /\ ~splitMode
        /\ frameSrc = Blank
        /\ watchdogs = <<>>
        /\ ~pvTrace.firedClosed

\* C19 as stated: at most one watchdog is pending, it is the watchdog of the preview
\* opened last, and only that watchdog switches the pane to the error panel.
C19_Claim ==
    /\ Len(watchdogs) <= 1
    /\ \A i \in 1..Len(watchdogs) : watchdogs[i] = opens
    /\ pvTrace.errorBy = pvTrace.errorLatest

\* C26: isEmbeddable(url) is false exactly when the url parses and a blocklisted
\* domain occurs in its hostname (www.github.com and netflix.com are refused,
\* example.com, a blocklisted name in the path and a link that does not parse are
\* accepted); open() leaves the error panel shown for a non-arXiv url exactly when
\* isEmbeddable is false.
C26_Embeddable ==
    pvTrace.url # "" =>
        /\ ~pvTrace.embeddable <=>
               pvTrace.url \in {"https://www.github.com/a", "https://netflix.com/a"}
        /\ pvTrace.url # "https://arxiv.org/abs/2401.00001" =>
               (pvTrace.errorAtOnce <=> ~pvTrace.embeddable)

\* open() was called with the link that does not parse and went on to load it.
C26_Witness ==
    /\ pvTrace.url = "example.com/a" /\ currentUrl = "example.com/a"
    /\ pvTrace.embeddable /\ ~pvTrace.errorAtOnce /\ loadingShown

\* The last open() was for a page shown in the frame, and the pane is still open.
FramePreview ==
    /\ pvTrace.url # "" /\ pvTrace.embeddable /\ ~IncludesArxiv(pvTrace.url)
    /\ ~pvClosed

\* C30 as stated: for an embeddable non-arXiv url the loading placeholder stays visible
\* from open() until the load event of the target page; a watchdog that expires before
\* that event with neither the error panel nor the arXiv panel visible shows the error
\* panel; a watchdog that expires after it does not.
C30_Claim ==
    /\ FramePreview /\ ~pvTrace.targetLoaded /\ ~pvTrace.expired /\ ~errorShown
           => loadingShown
    /\ ~pvTrace.silent
    /\ ~pvTrace.late

\* The panels of the preview pane that are visible.
VisiblePanels ==
    {panel \in {"loading", "error", "special"} :
        \/ panel = "loading" /\ loadingShown
        \/ panel = "error" /\ errorShown
        \/ panel = "special" /\ specialShown}

\* C31 as stated: after any sequence of open() calls, close(), frame load and error
\* events and watchdog expiries, at most one of the loading placeholder, the error
\* panel and the arXiv panel is visible.
C31_Claim == Cardinality(VisiblePanels) <= 1

(***************************************************************************)
(* website/app.js: TagFilterManager                                        *)
(***************************************************************************)
\* Cards of a rendered report.
MaxCards == 3

\* A card as the report carries it: the hidden .news-tags-data JSON array, the legacy
\* data-tags attribute, the visible .news-tag chips and the .news-source-tag label.
Card(hidden, attr, chips, source) ==
    [hidden |-> hidden, attr |-> attr, chips |-> chips, source |-> source]

\* The cards reports are made of: new cards with a hidden array (one of them not
\* JSON), a card with the source label only, a legacy card, a card with chips only,
\* and a card that carries nothing.
CardShapes ==
    {Card(Stored(<<"A">>), Absent, <<>>, <<"S">>),
     Card(Stored(<<"B">>), Absent, <<>>, <<"S">>),
     Card(Stored(<<"A", "B">>), Absent, <<>>, <<"S">>),
     Card(NotJson, Absent, <<>>, <<"S">>),
     Card(Absent, Absent, <<>>, <<"S">>),
     Card(Absent, Stored(<<"A">>), <<>>, <<"S">>),
     Card(Absent, Absent, <<"B">>, <<>>),
     Card(Absent, Absent, <<>>, <<>>)}

Reports == [1..MaxCards -> CardShapes]

\* JSON.parse inside try/catch with tags = [] before it.
ParseTags(slot) == IF slot.has /\ slot.json THEN slot.text ELSE <<>>

\* extractTags for one card: the four strategies in order.
tagsOfCard(card) ==
    LET s1 == ParseTags(card.hidden)
        s2 == IF Len(s1) = 0 /\ card.attr.has THEN ParseTags(card.attr) ELSE s1
        s3 == IF Len(s2) = 0 THEN card.chips ELSE s2
    IN  IF Len(s3) = 0 THEN card.source ELSE s3

\* card.dataset.tags after extractTags: the attribute it had, else the extracted tags
\* when there are any.
datasetAfterExtract(card) ==
    IF card.attr.has THEN card.attr
    ELSE IF Len(tagsOfCard(card)) = 0 THEN Absent
    ELSE Stored(tagsOfCard(card))

\* applyFilter for one card: whether it gets the class filtered-out.
Mut_filteredOut_AllTags(dataset, selected) ==
    IF selected = {} THEN FALSE
    ELSE IF ~dataset.has THEN TRUE
    ELSE IF ~dataset.json THEN TRUE
    ELSE ~(selected \subseteq Range(dataset.text))

filteredOut(dataset, selected) ==
    IF selected = {} THEN FALSE
    ELSE IF ~dataset.has THEN TRUE
    ELSE IF ~dataset.json THEN TRUE
    ELSE ~(\E i \in 1..Len(dataset.text) : dataset.text[i] \in selected)

\* applyFilter() over the rendered cards.
applyFilter(datasets, selected) ==
    [i \in 1..Len(datasets) |-> filteredOut(datasets[i], selected)]

TgInit ==
    /\ tgCards = <<>>
    /\ tgDatasets = <<>>
    /\ tgHidden = <<>>
    /\ tagCloud = {}
    /\ selectedTags = {}
    /\ tgLoading = FALSE
    /\ tgRendered = FALSE

\* showNews up to its await: clearFilters(), and the skeleton replaces the cards.
TgShowNews ==
    /\ ~tgLoading
    /\ tgLoading' = TRUE
    /\ selectedTags' = {}
    /\ tgCards' = <<>>
    /\ tgDatasets' = <<>>
    /\ tgHidden' = <<>>
    /\ tgRendered' = FALSE
    /\ UNCHANGED tagCloud

\* renderMarkdown of a report: the new cards are in the page, then render():
\* extractTags, the tag cloud, restoreSelection.
TgRender ==
    /\ tgLoading
    /\ \E report \in Reports :
        LET cards == [i \in 1..MaxCards |-> report[i]]
            datasets == [i \in 1..MaxCards |-> datasetAfterExtract(cards[i])]
            found == UNION {Range(tagsOfCard(cards[i])) : i \in 1..MaxCards}
        IN  /\ tgCards' = cards
            /\ tgDatasets' = datasets
            /\ tagCloud' = found
            /\ tgHidden' = IF selectedTags = {}
                           THEN [i \in 1..MaxCards |-> FALSE]
                           ELSE applyFilter(datasets, selectedTags)
    /\ tgLoading' = FALSE
    /\ tgRendered' = TRUE
    /\ UNCHANGED selectedTags

\* toggleTag(tag, itemEl): a click on an item of the tag cloud.
TgToggleTag ==
    \E tag \in tagCloud :
        /\ selectedTags' = IF tag \in selectedTags THEN selectedTags \ {tag}
                           ELSE selectedTags \cup {tag}
        /\ tgHidden' = applyFilter(tgDatasets, selectedTags')
        /\ tgRendered' = FALSE
        /\ UNCHANGED <<tgCards, tgDatasets, tagCloud, tgLoading>>

\* clearFilters(): a click on the clear button.
TgClearFilters ==
    /\ selectedTags # {}
    /\ selectedTags' = {}
    /\ tgHidden' = [i \in 1..Len(tgCards) |-> FALSE]
    /\ tgRendered' = FALSE
    /\ UNCHANGED <<tgCards, tgDatasets, tagCloud, tgLoading>>

C21_Claim ==
    tgRendered =>
        /\ selectedTags = {}
        /\ \A i \in 1..Len(tgHidden) : ~tgHidden[i]

(***************************************************************************)
(*        injectFavoriteButtons: the stars of the rendered cards            *)
(***************************************************************************)
\* The cards a report can hold: two articles, one article listed by two sources, and
\* a single article.
CardLists ==
    {<<[url |-> "u1", title |-> "t1"], [url |-> "u2", title |-> "t2"]>>,
     <<[url |-> "u1", title |-> "t1"], [url |-> "u1", title |-> "t2"]>>,
     <<[url |-> "u3", title |-> "t1"]>>}

FsInit ==
    /\ fsCards = <<>>
    /\ fsStars = <<>>

\* injectFavoriteButtons(): every card gets a star, or the star it has is updated,
\* from FavoritesManager.isFavorite(url).
injectFavoriteButtons(cards, storage) ==
    [i \in 1..Len(cards) |-> FavoritesManager_isFavorite(storage, cards[i].url)]

\* renderMarkdown of a report: the content region is replaced and the stars are
\* injected.
FsRender ==
    /\ \E cards \in CardLists :
        /\ fsCards' = cards
        /\ fsStars' = injectFavoriteButtons(cards, favStorage)
    /\ UNCHANGED <<favStorage, favCall>>

\* btn.onclick of the star of a card: the url is removed when it is a favorite and
\* added otherwise, the clicked star is switched, and the sidebar is rendered again.
FsStarClick ==
    \E i \in 1..Len(fsCards) :
        LET url == fsCards[i].url
            item == [title |-> fsCards[i].title, url |-> url, date |-> "d1"]
        IN  IF FavoritesManager_isFavorite(favStorage, url)
            THEN LET r == FavoritesManager_remove(favStorage, url)
                 IN  /\ favStorage' = r.storage
                     /\ favCall' = [op |-> "remove", url |-> url, item |-> EmptyObj,
                                    updates |-> EmptyObj, pre |-> favStorage,
                                    ret |-> r.ret, wrote |-> r.wrote]
                     /\ fsStars' = [fsStars EXCEPT ![i] = FALSE]
                     /\ UNCHANGED fsCards
            ELSE LET r == FavoritesManager_add(favStorage, item)
                 IN  /\ favStorage' = r.storage
                     /\ favCall' = [op |-> "add", url |-> url, item |-> item,
                                    updates |-> EmptyObj, pre |-> favStorage,
                                    ret |-> r.ret, wrote |-> r.wrote]
                     /\ fsStars' = [fsStars EXCEPT ![i] = TRUE]
                     /\ UNCHANGED fsCards

\* C32 as stated: after each favorites action of the UI (star click, delete confirmed in
\* the sidebar, report re-render) every rendered card's star shows the favorited glyph
\* exactly when the card's url is in the persisted favorites list, also when two
\* rendered cards carry the same url.
C32_Claim ==
    \A i \in 1..Len(fsCards) :
        fsStars[i] <=> FavoritesManager_isFavorite(favStorage, fsCards[i].url)

(***************************************************************************)
(*        ModalManager and the sidebar's edit / delete buttons             *)
(***************************************************************************)
MaxPending == 1      \* cap on the pending animation frames / timers of one kind

\* What the user can have typed into the two inputs of the edit dialog.
InputTitles == {" ", " t2 "}
InputNotes == {"", "n1 "}

\* String.prototype.trim on the texts above.
trim(text) ==
    CASE text = " " -> ""
      [] text = " t2 " -> "t2"
      [] text = "n1 " -> "n1"
      [] OTHER -> text

\* item.title || '' and item.note || '' (openEdit).
FieldOrEmpty(item, field) == IF field \in DOMAIN item THEN item[field] ELSE ""

\* The favorites the sidebar shows when the page is loaded: two entries, the second
\* one with a note.
SidebarFavorites ==
    Stored(<<[title |-> "t1", url |-> "u1", date |-> "d1"],
             [title |-> "t2", url |-> "u2", date |-> "d1", note |-> "n1"]>>)

NoSave == [made |-> FALSE, url |-> "", title |-> "", note |-> "", pre |-> Absent]

MdInit ==
    /\ editHidden = TRUE
    /\ deleteHidden = TRUE
    /\ overlayHidden = TRUE
    /\ overlayActive = FALSE
    /\ editTitle = ""
    /\ editNote = ""
    /\ onSave = Undefined
    /\ onDelete = Undefined
    /\ mdFrames = 0
    /\ mdTimers = 0
    /\ activeElement = "body"
    /\ dialogOpen = FALSE
    /\ lastSave = NoSave

Mut_show_KeepOther(edit, delete, modal) ==
    [edit |-> IF modal = "edit" THEN FALSE ELSE edit,
     delete |-> IF modal = "delete" THEN FALSE ELSE delete]

\* ModalManager.show(modal): the "hidden" classes of the two dialog bodies after
\* "hide all first, show target".
show(edit, delete, modal) ==
    [edit |-> modal # "edit", delete |-> modal # "delete"]

\* An element that stops being rendered loses the focus to the body.
FocusAfterHide(el, editGone) ==
    IF editGone /\ el \in {"editTitleInput", "editNoteInput"} THEN "body" ELSE el

\* editBtn.onclick of a sidebar entry: ModalManager.openEdit(item, callback).
MdOpenEdit ==
    /\ mdFrames < MaxPending
    /\ \E i \in 1..Len(FavoritesManager_get(favStorage)) :
        LET item == FavoritesManager_get(favStorage)[i]
            s == show(editHidden, deleteHidden, "edit")
        IN  /\ editTitle' = FieldOrEmpty(item, "title")
            /\ editNote' = FieldOrEmpty(item, "note")
            /\ onSave' = item.url
            /\ editHidden' = s.edit
            /\ deleteHidden' = s.delete
    /\ overlayHidden' = FALSE
    /\ mdFrames' = mdFrames + 1
    /\ activeElement' = "editTitleInput"
    /\ dialogOpen' = TRUE
    /\ lastSave' = NoSave
    /\ UNCHANGED <<fsStars, favStorage, favCall, overlayActive, onDelete, mdTimers>>

\* delBtn.onclick of a sidebar entry: ModalManager.openDelete(callback).
MdOpenDelete ==
    /\ mdFrames < MaxPending
    /\ \E i \in 1..Len(FavoritesManager_get(favStorage)) :
        LET item == FavoritesManager_get(favStorage)[i]
            s == show(editHidden, deleteHidden, "delete")
        IN  /\ onDelete' = item.url
            /\ editHidden' = s.edit
            /\ deleteHidden' = s.delete
    /\ overlayHidden' = FALSE
    /\ mdFrames' = mdFrames + 1
    /\ activeElement' = FocusAfterHide(activeElement, TRUE)
    /\ dialogOpen' = TRUE
    /\ lastSave' = NoSave
    /\ UNCHANGED <<fsStars, favStorage, favCall, overlayActive, editTitle, editNote, onSave, mdTimers>>

\* The callback requestAnimationFrame runs for show().
MdAnimationFrame ==
    /\ mdFrames > 0
    /\ mdFrames' = mdFrames - 1
    /\ overlayActive' = TRUE
    /\ lastSave' = NoSave
    /\ UNCHANGED <<fsStars, favStorage, favCall, editHidden, deleteHidden, overlayHidden, editTitle,
                   editNote, onSave, onDelete, mdTimers, activeElement, dialogOpen>>

\* The user types into the title and then the note input of the visible edit dialog.
MdInput ==
    /\ ~overlayHidden /\ ~editHidden
    /\ \E title \in InputTitles, note \in InputNotes :
        /\ editTitle' = title
        /\ editNote' = note
    /\ activeElement' = "editNoteInput"
    /\ lastSave' = NoSave
    /\ UNCHANGED <<fsStars, favStorage, favCall, editHidden, deleteHidden, overlayHidden, overlayActive,
                   onSave, onDelete, mdFrames, mdTimers, dialogOpen>>

Mut_onSaveCallback_NoTitleTest(storage, url, newData) ==
    FavoritesManager_update(storage, url, newData).storage

\* The callback editBtn.onclick hands to openEdit: the storage after it ran.
onSaveCallback(storage, url, newData) ==
    IF newData.title # ""
    THEN FavoritesManager_update(storage, url, newData).storage
    ELSE storage

\* editSaveBtn.onclick: onSave({trimmed title, trimmed note}), then close().
MdSave ==
    /\ ~overlayHidden /\ ~editHidden
    /\ mdTimers < MaxPending
    /\ LET newData == [title |-> trim(editTitle), note |-> trim(editNote)]
           after == IF onSave # Undefined
                    THEN onSaveCallback(favStorage, onSave, newData)
                    ELSE favStorage
       IN  /\ favStorage' = after
           /\ lastSave' = [made |-> TRUE, url |-> onSave, title |-> editTitle,
                           note |-> editNote, pre |-> favStorage]
    /\ overlayActive' = FALSE
    /\ mdTimers' = mdTimers + 1
    /\ dialogOpen' = FALSE
    /\ UNCHANGED <<fsStars, favCall, editHidden, deleteHidden, overlayHidden, editTitle, editNote,
                   onSave, onDelete, mdFrames, activeElement>>

\* deleteConfirmBtn.onclick: onDelete() removes the entry and renders the sidebar and
\* the stars again, then close().
MdConfirmDelete ==
    /\ ~overlayHidden /\ ~deleteHidden
    /\ mdTimers < MaxPending
    /\ favStorage' = IF onDelete # Undefined
                     THEN FavoritesManager_remove(favStorage, onDelete).storage
                     ELSE favStorage
    /\ fsStars' = IF onDelete # Undefined
                  THEN injectFavoriteButtons(fsCards, favStorage')
                  ELSE fsStars
    /\ overlayActive' = FALSE
    /\ mdTimers' = mdTimers + 1
    /\ dialogOpen' = FALSE
    /\ lastSave' = NoSave
    /\ UNCHANGED <<favCall, editHidden, deleteHidden, overlayHidden, editTitle, editNote,
                   onSave, onDelete, mdFrames, activeElement>>

\* ModalManager.close() from a cancel button or a click on the overlay.
MdClose ==
    /\ ~overlayHidden
    /\ mdTimers < MaxPending
    /\ overlayActive' = FALSE
    /\ mdTimers' = mdTimers + 1
    /\ dialogOpen' = FALSE
    /\ lastSave' = NoSave
    /\ UNCHANGED <<fsStars, favStorage, favCall, editHidden, deleteHidden, overlayHidden, editTitle,
                   editNote, onSave, onDelete, mdFrames, activeElement>>

\* The 300 ms timer of a close() fires: the overlay gets the class "hidden".
MdHideTimer ==
    /\ mdTimers > 0
    /\ mdTimers' = mdTimers - 1
    /\ overlayHidden' = TRUE
    /\ activeElement' = FocusAfterHide(activeElement, TRUE)
    /\ lastSave' = NoSave
    /\ UNCHANGED <<fsStars, favStorage, favCall, editHidden, deleteHidden, overlayActive, editTitle,
                   editNote, onSave, onDelete, mdFrames, dialogOpen>>

\* C22: at most one of the two dialog bodies (edit-favorite, delete-confirm) is
\* visible after any sequence of openEdit, openDelete and close calls.
C22_OneDialogBody == editHidden \/ deleteHidden

C22_Witness == ~editHidden /\ deleteHidden /\ onDelete # Undefined

\* The stored list with the title and the note of the entry at index replaced.
WithTitleNote(list, index, title, note) ==
    [list EXCEPT ![index] = [k \in DOMAIN list[index] \cup {"title", "note"} |->
                                 CASE k = "title" -> title
                                   [] k = "note" -> note
                                   [] OTHER -> list[index][k]]]

\* C23: a save whose title is empty after trimming leaves the stored favorites list
\* unchanged and closes the dialog; a save with a non-empty title replaces the title
\* and the note of exactly the edited entry, and closes the dialog as well.
C23_SaveRule ==
    lastSave.made =>
        LET pre == FavoritesManager_get(lastSave.pre)
            index == FindIndex(pre, lastSave.url)
        IN  /\ ~overlayActive /\ mdTimers > 0
            /\ trim(lastSave.title) = "" => favStorage = lastSave.pre
            /\ trim(lastSave.title) # "" /\ index # 0 =>
                   FavoritesManager_get(favStorage)
                       = WithTitleNote(pre, index, trim(lastSave.title), trim(lastSave.note))

\* The save button was clicked with the title " t2 " and an empty note for the first
\* entry, whose title was "t1".
C23_Witness ==
    /\ lastSave.made /\ lastSave.url = "u1" /\ lastSave.title = " t2 " /\ lastSave.note = ""
    /\ lastSave.pre # favStorage

\* C37 as stated: while a dialog is open (opened by openEdit or openDelete and not yet
\* closed) the shared overlay is never hidden: the deferred hide of an earlier close()
\* does not hide the overlay of a dialog opened after that close().
C37_Claim == dialogOpen => ~overlayHidden

(***************************************************************************)
(*        SearchManager: the debounced search box and the shortcuts        *)
(***************************************************************************)
DebounceMs == 300    \* the delay SearchManager.init passes to debounce
TickMs == 100        \* the resolution of the clock
MaxTime == 900       \* the clock stops here

SearchCards == {1, 2}
Queries == {"", " ", "a", "b", "zz"}

\* query.trim() for the queries above.
TrimQuery(query) == IF query = " " THEN "" ELSE query

\* fuse.search(query): the cards Fuse.js returns for a query ("a" is in the title of
\* card 1 only, "b" in the summary of card 2 only, "zz" in no card).
FuseResults(query) ==
    CASE query = "a" -> {1}
      [] query = "b" -> {2}
      [] OTHER -> {}

\* The results whose matches name the key 'title'.
TitleMatches(query) == IF query = "a" THEN {1} ELSE {}

\* The cards of a report: the title link is a child of the title element
\* (.news-card-header > .news-title > .news-title-link).
LinkInsideTitle == TRUE

\* highlightMatches for the results of a query: the innerHTML of the title element of
\* a card with a match in its title is replaced by its text with the matches wrapped
\* in spans; the cards that still hold their title link after it.
highlightMatches(linked, query) ==
    IF LinkInsideTitle THEN linked \ TitleMatches(query) ELSE linked

\* SearchManager.search(query): the cards displayed, the count and the panel after it.
search(query, displayed, count, noResults) ==
    IF TrimQuery(query) = ""
    THEN [displayed |-> SearchCards, count |-> "", noResults |-> FALSE]
    ELSE [displayed |-> FuseResults(query),
          count |-> Cardinality(FuseResults(query)),
          noResults |-> FuseResults(query) = {}]

NoTimer == [armed |-> FALSE, due |-> 0]
NoInput == [made |-> FALSE, time |-> 0, value |-> ""]
NoRun == [count |-> 0, time |-> 0, query |-> "", missed |-> FALSE]
NoKey == [key |-> "", before |-> "", prevented |-> FALSE]

SrInit ==
    /\ searchValue = ""
    /\ srTimer = NoTimer
    /\ srNow = 0
    /\ srDisplayed = SearchCards
    /\ srCount = ""
    /\ srNoResults = FALSE
    /\ srLinked = SearchCards
    /\ srInput = NoInput
    /\ srRun = NoRun
    /\ lastKey = NoKey

\* A timer that is due runs before the clock advances or another input event arrives.
TimerDue == srTimer.armed /\ srNow >= srTimer.due

SrTick ==
    /\ srNow + TickMs <= MaxTime
    /\ ~TimerDue
    /\ srNow' = srNow + TickMs
    /\ UNCHANGED <<searchValue, srTimer, srDisplayed, srCount, srNoResults, srLinked, srInput,
                   srRun, activeElement>>

Mut_debounce_NoClear(timer, now, delay) ==
    IF timer.armed THEN timer ELSE [armed |-> TRUE, due |-> now + delay]

\* The function debounce returns, called at the time now: clearTimeout, setTimeout.
debounce(timer, now, delay) == [armed |-> TRUE, due |-> now + delay]

\* The user changes the text of the search box: one input event.
SrInput ==
    /\ ~TimerDue
    /\ \E value \in Queries \ {searchValue} :
        /\ searchValue' = value
        /\ srInput' = [made |-> TRUE, time |-> srNow, value |-> value]
    /\ srTimer' = debounce(srTimer, srNow, DebounceMs)
    /\ srRun' = IF srInput.made /\ srNow - srInput.time < DebounceMs
                THEN srRun
                ELSE [NoRun EXCEPT !.missed = srInput.made /\ srRun.count = 0]
    /\ activeElement' = "searchInput"
    /\ UNCHANGED <<srNow, srDisplayed, srCount, srNoResults, srLinked>>

\* The timer of debounce fires: this.search(e.target.value).
SrDebounceFires ==
    /\ TimerDue
    /\ LET r == search(searchValue, srDisplayed, srCount, srNoResults)
       IN  /\ srDisplayed' = r.displayed
           /\ srCount' = r.count
           /\ srNoResults' = r.noResults
    /\ srLinked' = IF TrimQuery(searchValue) = "" THEN srLinked
                   ELSE highlightMatches(srLinked, searchValue)
    /\ srTimer' = NoTimer
    /\ srRun' = [srRun EXCEPT !.count = @ + 1, !.time = srNow, !.query = searchValue]
    /\ UNCHANGED <<searchValue, srNow, srInput, activeElement>>

\* SearchManager.clear(): the state of the search box and the cards after it;
\* removeHighlight turns the spans of a title back into text.
ClearSearch ==
    /\ searchValue' = ""
    /\ srDisplayed' = SearchCards
    /\ srCount' = ""
    /\ srNoResults' = FALSE
    /\ UNCHANGED <<srTimer, srNow, srLinked, srInput, srRun>>

\* searchInput.blur() at the end of clear().
FocusAfterBlur(el) == IF el = "searchInput" THEN "body" ELSE el

\* A click on #searchClear.
SrClearClick ==
    /\ ClearSearch
    /\ activeElement' = FocusAfterBlur(activeElement)

Keys == {"/", "Escape", "a"}

\* One keydown event of the document: the listener of ModalManager.init (Escape
\* closes), then the listener of SearchManager.init ('/' focuses the search box, Escape
\* clears it).
KeyDown ==
    \E key \in Keys :
        LET slash == key = "/" /\ activeElement # "searchInput"
        IN  /\ IF key = "Escape"
               THEN /\ mdTimers < MaxPending
                    /\ overlayActive' = FALSE
                    /\ mdTimers' = mdTimers + 1
                    /\ dialogOpen' = FALSE
                    /\ ClearSearch
                    /\ activeElement' = FocusAfterBlur(activeElement)
               ELSE /\ activeElement' = IF slash THEN "searchInput" ELSE activeElement
                    /\ UNCHANGED <<overlayActive, mdTimers, dialogOpen, searchValue, srTimer,
                                   srNow, srDisplayed, srCount, srNoResults, srLinked,
                                   srInput, srRun>>
            /\ lastKey' = [key |-> key, before |-> activeElement, prevented |-> slash]
            /\ lastSave' = NoSave
            /\ UNCHANGED <<favStorage, favCall, editHidden, deleteHidden, overlayHidden,
                           editTitle, editNote, onSave, onDelete, mdFrames>>

\* C36 as stated: running a search and then clearing it (empty query, clear button or
\* Escape) restores every card to its pre-search state: each card is visible again
\* and still contains its title link.
C36_Claim ==
    (searchValue = "" /\ ~srTimer.armed) =>
        /\ srDisplayed = SearchCards
        /\ srLinked = SearchCards

\* With an empty search box and no search pending every card is displayed.
AllDisplayedWhenCleared == (searchValue = "" /\ ~srTimer.armed) => srDisplayed = SearchCards

\* C24 as stated: '/' moves the focus to the search box only when no other input field
\* has the focus; pressed in another field (the title or note input of the edit
\* dialog), it leaves the focus there and is not suppressed.
C24_Claim ==
    lastKey.key = "/" /\ lastKey.before \in {"editTitleInput", "editNoteInput"} =>
        /\ activeElement = lastKey.before
        /\ ~lastKey.prevented

\* C29 as stated: search() runs exactly once for a burst of input events, with the
\* value of the burst's last event, and not before 300 ms after that event.
C29_Claim ==
    /\ ~srRun.missed
    /\ srRun.count <= 1
    /\ srRun.count = 1 =>
        /\ srRun.query = srInput.value
        /\ srRun.time >= srInput.time + DebounceMs
    /\ srInput.made /\ srRun.count = 0 => srTimer.armed

\* C29: search() runs exactly once for a burst of input events and not before 300 ms
\* after the burst's last event, with the text the search box holds when it runs:
\* the value of the last event, or the empty text if clear() ran after that event.
C29_Debounced ==
    /\ ~srRun.missed
    /\ srRun.count <= 1
    /\ srRun.count = 1 =>
        /\ srRun.query \in {srInput.value, ""}
        /\ srRun.time >= srInput.time + DebounceMs
    /\ srInput.made /\ srRun.count = 0 => srTimer.armed

\* A burst of two events 200 ms apart was searched once, 300 ms after the second.
C29_Witness ==
    /\ srInput.made /\ srInput.time = 200 /\ srInput.value = "a"
    /\ srRun.count = 1 /\ srRun.time = 500 /\ srRun.query = "a"
    /\ srDisplayed = {1}

(***************************************************************************)
(*                              ThemeManager                               *)
(***************************************************************************)
MaxToggles == 4      \* cap on the toggles counted in a row

Tabs == {1, 2}        \* the tabs the site is open in

ThemeAbsent == [has |-> FALSE, value |-> ""]
ThemeItem(value) == [has |-> TRUE, value |-> value]

NoToggle == [tab |-> 0, count |-> 0, before |-> ""]

\* ThemeManager.init on a fresh document: the attribute it leaves.
themeAfterInit(storage) ==
    IF storage.has /\ storage.value = "dark" THEN "dark"
    ELSE IF storage.has /\ storage.value = "light" THEN "light"
    ELSE ""

ThInit ==
    /\ themeStorage = ThemeAbsent
    /\ systemDark = FALSE
    /\ dataTheme = [tab \in Tabs |-> themeAfterInit(themeStorage)]
    /\ toggles = NoToggle

\* ThemeManager.getCurrentTheme().
getCurrentTheme(attribute, prefersDark) ==
    IF attribute # "" THEN attribute
    ELSE IF prefersDark THEN "dark" ELSE "light"

Mut_newTheme_Same(current) == IF current = "dark" THEN "dark" ELSE "light"

\* The theme ThemeManager.toggle() switches to.
newTheme(current) == IF current = "dark" THEN "light" ELSE "dark"

\* A click on #themeToggle in one tab: ThemeManager.toggle().
ThToggle ==
    \E tab \in Tabs :
        LET current == getCurrentTheme(dataTheme[tab], systemDark)
        IN  /\ dataTheme' = [dataTheme EXCEPT ![tab] = newTheme(current)]
            /\ themeStorage' = ThemeItem(newTheme(current))
            /\ toggles' = [tab |-> tab,
                           count |-> IF toggles.tab # tab THEN 1
                                     ELSE IF toggles.count < MaxToggles THEN toggles.count + 1
                                     ELSE toggles.count,
                           before |-> current]
            /\ UNCHANGED systemDark

\* ThemeManager.set(theme) in one tab.
ThSet ==
    \E tab \in Tabs, theme \in {"light", "dark", "auto"} :
        /\ IF theme = "auto"
           THEN /\ dataTheme' = [dataTheme EXCEPT ![tab] = ""]
                /\ themeStorage' = ThemeAbsent
           ELSE /\ dataTheme' = [dataTheme EXCEPT ![tab] = theme]
                /\ themeStorage' = ThemeItem(theme)
        /\ toggles' = NoToggle
        /\ UNCHANGED systemDark

\* One tab loads the page again: a fresh document, then ThemeManager.init().
ThReload ==
    \E tab \in Tabs :
        /\ dataTheme' = [dataTheme EXCEPT ![tab] = themeAfterInit(themeStorage)]
        /\ UNCHANGED <<themeStorage, systemDark, toggles>>

\* The user changes the colour scheme of the system.
ThSystemChange ==
    /\ systemDark' = ~systemDark
    /\ UNCHANGED <<dataTheme, themeStorage, toggles>>

\* C25: after a toggle the attribute of the page and the stored value are equal and
\* explicit: 'dark' if the current theme (the attribute if set, else the system
\* preference) was light, 'light' if it was dark; no number of toggles leaves the key
\* absent.
C25_ToggleExplicit ==
    toggles.count > 0 =>
        /\ themeStorage.has /\ themeStorage.value = dataTheme[toggles.tab]
        /\ toggles.before = "light" => dataTheme[toggles.tab] = "dark"
        /\ toggles.before = "dark" => dataTheme[toggles.tab] = "light"
        /\ dataTheme[toggles.tab] \in {"dark", "light"}

\* Three toggles in a row in one tab, of which the first started from the automatic
\* setting on a dark system.
C25_Witness ==
    /\ toggles.count = 3 /\ toggles.before = "dark"
    /\ systemDark /\ dataTheme[toggles.tab] = "light"
    /\ \E tab \in Tabs : dataTheme[tab] = ""

(***************************************************************************)
(*        PreviewManager: the PDF and abstract buttons of the arXiv panel  *)
(***************************************************************************)
Abs == <<"/", "abs", "/">>
Pdf == <<"/", "pdf", "/">>
Html == <<"/", "html", "/">>
DotPdf == <<".pdf">>

\* arXiv links: a host, the kind of page, an identifier (new style, with a version,
\* old style), and for some a ".pdf" suffix.
ArxivHosts == {<<"https:", "//", "arxiv.org">>, <<"https:", "//", "www.", "arxiv.org">>}
ArxivIds == {<<"2401.00001">>, <<"2401.00001", "v2">>, <<"hep-th", "/", "9901001">>}
ArxivTexts ==
    {host \o kind \o id \o suffix :
        host \in ArxivHosts, kind \in {Abs, Pdf, Html}, id \in ArxivIds,
        suffix \in {<<>>, DotPdf}}

\* String.prototype.replace with a string pattern: the first occurrence only.
replace(text, pattern, by) ==
    LET i == IndexOf(text, pattern)
    IN  IF i = 0 THEN text
        ELSE SubSeq(text, 1, i - 1) \o by \o SubSeq(text, i + Len(pattern), Len(text))

\* String.prototype.endsWith
endsWith(text, suffix) ==
    /\ Len(text) >= Len(suffix)
    /\ SubSeq(text, Len(text) - Len(suffix) + 1, Len(text)) = suffix

\* The url the PDF button opens.
pdfUrl(url) ==
    LET moved == replace(replace(url, Abs, Pdf), Html, Pdf)
    IN  IF ~endsWith(moved, DotPdf) THEN moved \o DotPdf ELSE moved

Mut_absUrl_KeepSuffix(url) == replace(url, Pdf, Abs)

\* The url the abstract button opens.
absUrl(url) == replace(replace(url, Pdf, Abs), DotPdf, <<>>)

NoTrail == [via |-> "none", from |-> <<>>, pdfOf |-> <<>>]

UxInit ==
    /\ arxivUrl = <<>>
    /\ openedUrl = <<>>
    /\ urlTrail = NoTrail

\* open(url) with a link of a report that holds 'arxiv.org/'.
UxOpen ==
    /\ arxivUrl' \in ArxivTexts
    /\ urlTrail' = NoTrail
    /\ UNCHANGED openedUrl

\* open(url) with the link the PDF button opened last.
UxOpenPdf ==
    /\ urlTrail.via = "pdf"
    /\ arxivUrl' = openedUrl
    /\ urlTrail' = [via |-> "none", from |-> <<>>, pdfOf |-> urlTrail.from]
    /\ UNCHANGED openedUrl

\* A click on the PDF button of the arXiv panel.
UxPdfClick ==
    /\ arxivUrl # <<>>
    /\ openedUrl' = pdfUrl(arxivUrl)
    /\ urlTrail' = [urlTrail EXCEPT !.via = "pdf", !.from = arxivUrl]
    /\ UNCHANGED arxivUrl

\* A click on the abstract button of the arXiv panel.
UxAbsClick ==
    /\ arxivUrl # <<>>
    /\ openedUrl' = absUrl(arxivUrl)
    /\ urlTrail' = [urlTrail EXCEPT !.via = "abs", !.from = arxivUrl]
    /\ UNCHANGED arxivUrl

\* C27: the PDF button turns an abstract url .../abs/<id> into .../pdf/<id>.pdf and
\* never doubles a ".pdf" suffix; the abstract button turns that PDF url back into
\* the abstract url it came from.
C27_RoundTrip ==
    \A host \in ArxivHosts, id \in ArxivIds :
        /\ urlTrail.via = "pdf" /\ urlTrail.from = host \o Abs \o id
               => openedUrl = host \o Pdf \o id \o DotPdf
        /\ urlTrail.via = "pdf" /\ urlTrail.from = host \o Pdf \o id \o DotPdf
               => openedUrl = urlTrail.from
        /\ urlTrail.via = "abs" /\ urlTrail.pdfOf = host \o Abs \o id
               => openedUrl = urlTrail.pdfOf

\* The abstract button was clicked on the PDF url of an abstract url with a version.
C27_Witness ==
    /\ urlTrail.via = "abs"
    /\ urlTrail.pdfOf = <<"https:", "//", "arxiv.org">> \o Abs \o <<"2401.00001", "v2">>
    /\ urlTrail.from = <<"https:", "//", "arxiv.org">> \o Pdf \o <<"2401.00001", "v2">> \o DotPdf
    /\ openedUrl = urlTrail.pdfOf

(***************************************************************************)
(*        website/src/hooks/useNews.js: the useNews hook                   *)
(***************************************************************************)
MaxCycles == 2       \* refresh calls counted; a component calls refresh() below this count
MaxUnEvents == 1     \* cap on the hashchange events pending at once
MaxFetches == 2      \* cap on the loadMarkdown calls awaited at a time

UnDates == {"2024-01-01", "2024-01-02"}
\* What a caller or the fragment can name: the dates, a date no store holds, no date.
UnNames == UnDates \cup {"2024-01-03", "about"}
UnStores == {<<>>, <<"2024-01-02", "2024-01-01">>}

\* /^\d{4}-\d{2}-\d{2}$/.test(dateStr)
IsDateStr(name) == name \in UnDates \cup {"2024-01-03"}

\* getAvailableDates() of utils/news: the dates of the store, newest first.
getAvailableDates(store) == store.dates

\* loadMarkdown(dateStr) of utils/news: the raw text of the report, or null.
loadMarkdownResults(store, dateStr) ==
    IF dateStr \in Range(store.dates) THEN {<<dateStr>>, <<>>} ELSE {<<>>}

NoUnCall == [made |-> FALSE, dateStr |-> "", dates |-> <<>>, pre |-> <<>>]

\* The part of the hook's state selectDate works on.
Hook == [currentDate |-> unCurrentDate, hash |-> unHash, isLoading |-> unIsLoading,
         hashEvents |-> unHashEvents, fetches |-> unFetches]

\* The hook after it was mounted: the effect has run and called refresh().
UnMounted ==
    /\ unDates = <<>>
    /\ unCurrentDate = ""
    /\ unMarkdown = <<>>
    /\ unIsLoading = TRUE
    /\ unStatus = "refreshing"
    /\ unHash = ""
    /\ unHashEvents = 0
    /\ unFetches = EmptyBag
    /\ unProbes = 1
    /\ unListener = <<>>
    /\ unEffect = FALSE
    /\ unCycles = 1
    /\ unCall = NoUnCall

UnInit ==
    /\ unStore = [dates |-> <<>>, fails |-> FALSE]
    /\ UnMounted

Mut_selectDate_NoMemberTest(hook, dateStr, dates, awaited) ==
    [hook EXCEPT !.isLoading = TRUE,
                 !.currentDate = dateStr,
                 !.hash = dateStr,
                 !.hashEvents = IF hook.hash # dateStr THEN @ + 1 ELSE @,
                 !.fetches = @ (+) SetToBag({[date |-> dateStr, refresh |-> awaited]})]

\* selectDate(dateStr, dates) up to its await: the hook's state after it.
selectDate(hook, dateStr, dates, awaited) ==
    IF dateStr \notin Range(dates) THEN hook
    ELSE [hook EXCEPT !.isLoading = TRUE,
                      !.currentDate = dateStr,
                      !.hash = dateStr,
                      !.hashEvents = IF hook.hash # dateStr THEN @ + 1 ELSE @,
                      !.fetches = @ (+) SetToBag({[date |-> dateStr, refresh |-> awaited]})]

\* The variables take the values of the hook's state after a selectDate call.
UnCalled(dateStr, dates, awaited) ==
    LET after == selectDate(Hook, dateStr, dates, awaited)
    IN  /\ unCurrentDate' = after.currentDate
        /\ unHash' = after.hash
        /\ unIsLoading' = after.isLoading
        /\ unHashEvents' = after.hashEvents
        /\ unFetches' = after.fetches
        /\ unCall' = [made |-> TRUE, dateStr |-> dateStr, dates |-> dates,
                      pre |-> <<Hook, unMarkdown>>]

RoomForCall == unHashEvents < MaxUnEvents /\ BagCardinality(unFetches) < MaxFetches

\* getAvailableDates resolves in refresh: the dates are stored and the target date is
\* selected, or the markdown is cleared and the status is 'online'.
UnDatesArrive ==
    /\ unProbes > 0
    /\ ~unStore.fails
    /\ RoomForCall
    /\ unProbes' = unProbes - 1
    /\ LET dates == getAvailableDates(unStore)
       IN  /\ unDates' = dates
           /\ unEffect' = TRUE
           /\ IF Len(dates) > 0
              THEN /\ UnCalled(IF unHash \in Range(dates) THEN unHash ELSE dates[1], dates, TRUE)
                   /\ UNCHANGED <<unMarkdown, unStatus>>
              ELSE /\ unMarkdown' = <<>>
                   /\ unStatus' = "online"
                   /\ unCall' = NoUnCall
                   /\ UNCHANGED <<unCurrentDate, unHash, unIsLoading, unHashEvents, unFetches>>
    /\ UNCHANGED <<unStore, unListener, unCycles>>

\* getAvailableDates rejects in refresh: the catch block.
UnDatesFail ==
    /\ unProbes > 0
    /\ unStore.fails
    /\ unProbes' = unProbes - 1
    /\ unStatus' = "error"
    /\ unCall' = NoUnCall
    /\ UNCHANGED <<unStore, unDates, unCurrentDate, unMarkdown, unIsLoading, unHash,
                   unHashEvents, unFetches, unListener, unEffect, unCycles>>

\* loadMarkdown resolves for one of the awaited calls: the rest of selectDate, and of
\* refresh if it awaits this call.
UnFetchSettles ==
    /\ \E call \in BagToSet(unFetches) :
        /\ unMarkdown' \in loadMarkdownResults(unStore, call.date)
        /\ unStatus' = IF call.refresh THEN "online" ELSE unStatus
        /\ unFetches' = unFetches (-) SetToBag({call})
    /\ unIsLoading' = FALSE
    /\ unCall' = NoUnCall
    /\ UNCHANGED <<unStore, unDates, unCurrentDate, unHash, unHashEvents, unProbes,
                   unListener, unEffect, unCycles>>

\* The effect runs again after selectDate changed: the listener is replaced and
\* refresh() is called.
UnEffectRuns ==
    /\ unEffect
    /\ unEffect' = FALSE
    /\ unListener' = unDates
    /\ unStatus' = "refreshing"
    /\ unProbes' = unProbes + 1
    /\ unCycles' = IF unCycles < MaxCycles THEN unCycles + 1 ELSE unCycles
    /\ unCall' = NoUnCall
    /\ UNCHANGED <<unStore, unDates, unCurrentDate, unMarkdown, unIsLoading, unHash,
                   unHashEvents, unFetches>>

\* handleHashChange: selectDate(dateStr) for a fragment that is a date.
UnHashChange ==
    /\ unHashEvents > 0
    /\ BagCardinality(unFetches) < MaxFetches
    /\ IF unHash # "" /\ IsDateStr(unHash)
       THEN LET after == selectDate([Hook EXCEPT !.hashEvents = @ - 1], unHash, unListener,
                                    FALSE)
            IN  /\ unCurrentDate' = after.currentDate
                /\ unHash' = after.hash
                /\ unIsLoading' = after.isLoading
                /\ unHashEvents' = after.hashEvents
                /\ unFetches' = after.fetches
                /\ unCall' = [made |-> TRUE, dateStr |-> unHash, dates |-> unListener,
                              pre |-> <<[Hook EXCEPT !.hashEvents = @ - 1], unMarkdown>>]
       ELSE /\ unHashEvents' = unHashEvents - 1
            /\ unCall' = NoUnCall
            /\ UNCHANGED <<unCurrentDate, unHash, unIsLoading, unFetches>>
    /\ UNCHANGED <<unStore, unDates, unMarkdown, unStatus, unProbes, unListener, unEffect,
                   unCycles>>

\* A component calls the selectDate the hook returned.
UnSelectDate ==
    /\ RoomForCall
    /\ \E dateStr \in UnNames : UnCalled(dateStr, unDates, FALSE)
    /\ UNCHANGED <<unStore, unDates, unMarkdown, unStatus, unProbes, unListener, unEffect,
                   unCycles>>

\* The user edits the fragment of the address.
UnUserHash ==
    /\ unHashEvents < MaxUnEvents
    /\ \E name \in (UnNames \cup {""}) \ {unHash} : unHash' = name
    /\ unHashEvents' = unHashEvents + 1
    /\ unCall' = NoUnCall
    /\ UNCHANGED <<unStore, unDates, unCurrentDate, unMarkdown, unIsLoading, unStatus,
                   unFetches, unProbes, unListener, unEffect, unCycles>>

\* A component calls the refresh the hook returned.
UnRefresh ==
    /\ unCycles < MaxCycles
    /\ unStatus' = "refreshing"
    /\ unProbes' = unProbes + 1
    /\ unCycles' = unCycles + 1
    /\ unCall' = NoUnCall
    /\ UNCHANGED <<unStore, unDates, unCurrentDate, unMarkdown, unIsLoading, unHash,
                   unHashEvents, unFetches, unListener, unEffect>>

\* C28: selectDate(dateStr, dates) with a dateStr that is no member of dates changes
\* neither currentDate, the fragment, the loading flag nor the markdown, and awaits no
\* fetch; with a member it sets currentDate and the fragment to it, raises the
\* loading flag and awaits the fetch of that date.
C28_SelectDateFrame ==
    unCall.made =>
        IF unCall.dateStr \in Range(unCall.dates)
        THEN /\ unCurrentDate = unCall.dateStr
             /\ unHash = unCall.dateStr
             /\ unIsLoading
             /\ \E call \in BagToSet(unFetches) :
                    /\ call.date = unCall.dateStr
                    /\ unFetches = unCall.pre[1].fetches (+) SetToBag({call})
             /\ unMarkdown = unCall.pre[2]
        ELSE <<Hook, unMarkdown>> = unCall.pre

\* selectDate was called with a date that is not among the two available dates while
\* the hook showed the newer of them.
C28_Witness ==
    /\ unCall.made /\ unFetches = EmptyBag
    /\ unCall.dateStr = "2024-01-03" /\ unCall.dates = <<"2024-01-02", "2024-01-01">>
    /\ unCurrentDate = "2024-01-02" /\ unMarkdown = <<"2024-01-02">> /\ ~unIsLoading

\* The hook is at rest: no date probe and no report fetch is awaited, no hashchange
\* event is pending, the effect is not due, and the status is 'online'.
UnStable ==
    /\ unProbes = 0 /\ unFetches = EmptyBag /\ unHashEvents = 0 /\ ~unEffect
    /\ unStatus = "online"

\* C34 as stated: after the hook mounts, with a fixed report store whose probes succeed
\* and no user input, it performs finitely many refresh cycles and then stays in a
\* stable state with status 'online' and no fetch pending.
C34_Claim == ~unStore.fails => <>[]UnStable

\* C40 as stated: whenever a refresh has finished (the status is 'online' or 'error')
\* and no selectDate fetch is awaited, isLoading is false, also when the refresh found
\* no dates; and isLoading is true whenever a selectDate fetch is awaited, also when
\* two selectDate calls overlap.
C40_Claim ==
    /\ (unStatus \in {"online", "error"} /\ unFetches = EmptyBag) => ~unIsLoading
    /\ unFetches # EmptyBag => unIsLoading

(***************************************************************************)
(*     showNews and the hashchange listener: the feedback through the      *)
(*     URL fragment after finitely many date selections                    *)
(***************************************************************************)
MaxSelections == 2   \* date selections of the user

FbInit == nwSelections = 0

\* One date selection of the user: a click on an item of the history list or on the
\* back-to-today control.
NwSelect ==
    /\ nwSelections < MaxSelections
    /\ nwSelections' = nwSelections + 1
    /\ \/ NwClickHistory
       \/ NwBackToToday

\* No showNews call awaits its report and no hashchange event is pending.
ShowQuiescent == LoadCount = 0 /\ nwHashEvents = 0

\* C33 as stated: after finitely many date selections and no further input the
\* controller eventually becomes quiescent: showNews setting the fragment and the
\* hashchange listener calling showNews trigger only finitely many report loads, in
\* every order in which overlapping fetches resolve.
C33_Claim == <>[]ShowQuiescent

(***************************************************************************)
(*   refresh() called while an earlier refresh() is running: the boot      *)
(*   sequence, the refresh button and the auto-refresh timer               *)
(***************************************************************************)
MaxRefreshes == 2    \* refresh() calls of one run

\* The reports directory when the page is loaded: empty, yesterday's report and an
\* older one, or one old report.
RcStores == {{}, {DateStrings[TodayIdx - 1], DateStrings[TodayIdx - 3]},
             {DateStrings[TodayIdx - 5]}}

\* What the fetch of a report file returns: the report, or the 404 page.
StoreFetch(store, dateStr) ==
    IF dateStr \in store
    THEN [kind |-> "response", status |-> 200, body |-> <<"#">>]
    ELSE [kind |-> "response", status |-> 404, body |-> <<"<">>]

\* A showNews fetch gets the report, the 404 page, or fails.
OverlapNet == {[kind |-> "response", status |-> 200, body |-> <<"#">>],
               [kind |-> "response", status |-> 404, body |-> <<"<">>],
               [kind |-> "fetchThrows", status |-> 0, body |-> <<>>]}

RcIdle == [pc |-> "idle", idx |-> 0, inFlight |-> 0, avail |-> <<>>, target |-> ""]

RcInit ==
    /\ rcStore = {}
    /\ rcCycles = [c \in 1..MaxRefreshes |-> RcIdle]
    /\ rcRendered = <<>>

\* The cycles between their first statement and their last.
RcRunning == {c \in 1..MaxRefreshes : rcCycles[c].pc \in {"probing", "showing"}}

Mut_renderHistoryList_Append(list, availableDates) == list \o availableDates

\* The history list after initHistoryList has rendered availableDates: the list is
\* emptied (or gets the "no history" item) and one item per date is appended.
renderHistoryList(list, availableDates) == availableDates

\* refresh() is called (boot sequence, refresh button, auto-refresh timer): the
\* status, the skeleton, and initHistoryList up to the fetch of the first date.
RcStart ==
    /\ \E c \in 1..MaxRefreshes :
        /\ rcCycles[c].pc = "idle"
        /\ \A b \in 1..(c - 1) : rcCycles[b].pc # "idle"
        /\ rcCycles' = [rcCycles EXCEPT ![c] = [RcIdle EXCEPT !.pc = "probing",
                                                              !.inFlight = 1]]
    /\ nwStatus' = "refreshing"
    /\ nwContent' = Skeleton
    /\ UNCHANGED <<rcStore, rcRendered, historyList, nwDateLabel, nwBadge, nwBackVisible,
                   nwHash, nwHashEvents, nwLoads, nwLastRender>>

\* The probe of a cycle's next date settles; the loop goes on to the fetch of the
\* date after it.
RcProbe ==
    /\ \E c \in 1..MaxRefreshes :
        LET cycle == rcCycles[c]
            dates == getRecentDates(HISTORY_LIMIT)
            i == cycle.idx + 1
        IN  /\ cycle.pc = "probing"
            /\ cycle.idx < HISTORY_LIMIT
            /\ rcCycles' =
                   [rcCycles EXCEPT
                       ![c].idx = i,
                       ![c].avail = IF probeAccepts(StoreFetch(rcStore, dates[i]))
                                    THEN Append(@, dates[i]) ELSE @,
                       ![c].inFlight = (@ - 1) + (IF i < HISTORY_LIMIT THEN 1 ELSE 0)]
    /\ UNCHANGED <<rcStore, rcRendered, historyList, nwStatus, nwContent, nwDateLabel,
                   nwBadge, nwBackVisible, nwHash, nwHashEvents, nwLoads, nwLastRender>>

\* After the loop of a cycle: the list is rendered, initHistoryList returns, and
\* refresh() goes on to showNews(targetDate) up to its await, or to "no news yet".
RcAfterList ==
    /\ \E c \in 1..MaxRefreshes :
        LET cycle == rcCycles[c]
        IN  /\ cycle.pc = "probing"
            /\ cycle.idx = HISTORY_LIMIT
            /\ historyList' = renderHistoryList(historyList, cycle.avail)
            /\ rcRendered' = Append(rcRendered, c)
            /\ IF Len(cycle.avail) > 0
               THEN LET targetDate == refreshTarget(cycle.avail, nwHash)
                    IN  /\ showNewsStart(targetDate)
                        /\ rcCycles' = [rcCycles EXCEPT ![c].pc = "showing",
                                                        ![c].target = targetDate]
                        /\ UNCHANGED <<nwStatus, nwHash, nwHashEvents>>
               ELSE /\ nwContent' = NoNews
                    /\ nwStatus' = "online"
                    /\ rcCycles' = [rcCycles EXCEPT ![c].pc = "done"]
                    /\ UNCHANGED <<nwDateLabel, nwBadge, nwBackVisible, nwHash,
                                   nwHashEvents, nwLoads, nwLastRender>>
    /\ UNCHANGED rcStore

\* The showNews call a cycle awaits settles, and refresh() sets the status.
RcLoadSettles ==
    /\ \E c \in 1..MaxRefreshes :
        LET cycle == rcCycles[c]
        IN  /\ cycle.pc = "showing"
            /\ cycle.target = nwHash \/ nwHashEvents < MaxHashEvents
            /\ \E o \in net : showNewsFinish(cycle.target, o)
            /\ rcCycles' = [rcCycles EXCEPT ![c].pc = "done"]
    /\ nwStatus' = "online"
    /\ UNCHANGED <<rcStore, rcRendered, historyList>>

\* The aggregator writes today's report.
RcPublish ==
    /\ getTodayStr \notin rcStore
    /\ rcStore' = rcStore \cup {getTodayStr}
    /\ UNCHANGED <<rcCycles, rcRendered, historyList, nwStatus, nwContent, nwDateLabel,
                   nwBadge, nwBackVisible, nwHash, nwHashEvents, nwLoads, nwLastRender>>

\* C38 as stated (first part): the status indicator reads 'online' only when no
\* refresh cycle is in progress; while a refresh is running it reads 'refreshing'.
C38_Claim ==
    /\ nwStatus = "online" => RcRunning = {}
    /\ RcRunning # {} => nwStatus = "refreshing"

\* The position of a date in the calendar.
DateIdx(dateStr) == CHOOSE i \in 1..Len(DateStrings) : DateStrings[i] = dateStr

\* C39: the rendered history list never holds a date twice and is newest first, also
\* when two refresh cycles overlap; within one cycle at most one probe is in flight
\* at a time.
C39_HistoryList ==
    /\ \A i, j \in 1..Len(historyList) :
           i < j => DateIdx(historyList[i]) > DateIdx(historyList[j])
    /\ \A c \in 1..MaxRefreshes : rcCycles[c].inFlight <= 1

\* Two cycles ran at the same time, today's report was published between their
\* probes of today, and the cycle that was started first rendered last: the list is
\* the one without today.
C39_Witness ==
    /\ rcRendered = <<2, 1>>
    /\ rcCycles[2].avail = <<DateStrings[TodayIdx], DateStrings[TodayIdx - 1],
                             DateStrings[TodayIdx - 3]>>
    /\ historyList = <<DateStrings[TodayIdx - 1], DateStrings[TodayIdx - 3]>>

\* C35 as stated: whenever the controller is quiescent (no date probe, report fetch or
\* hashchange event pending) after at least one date has been displayed, the date
\* label, the URL fragment and the content region refer to the same date: the content
\* is that date's rendered report or that date's empty state.
C35_Claim ==
    (/\ ShowQuiescent /\ hsPc # "probing" /\ RcRunning = {}
     /\ nwLastRender.class # "none") =>
        /\ nwDateLabel = nwHash
        /\ nwContent.kind \in {"report", "empty"}
        /\ nwContent.date = nwDateLabel

(***************************************************************************)
(*                           Specifications                                *)
(***************************************************************************)
\* Every specification starts all components in their initial state and runs one.
Init == FavInit /\ RdInit /\ HsInit /\ NwInit /\ RfInit /\ StInit /\ net = FetchOutcomes
        /\ bootPc = "loading" /\ SpInit /\ PvInit /\ TgInit /\ MdInit /\ SrInit /\ ThInit /\ UxInit /\ UnInit /\ FsInit /\ FbInit /\ RcInit

\* The page after initHistoryList has rendered a history list: none, today and
\* yesterday, or two older dates.
ShowHistories == {<<>>,
                  <<DateStrings[TodayIdx], DateStrings[TodayIdx - 1]>>,
                  <<DateStrings[TodayIdx - 1], DateStrings[TodayIdx - 3]>>}

\* What the fetch of a report can do while reports are shown: one outcome of each
\* kind loadMarkdown tells apart, and a success page that is not a report.
ShowNet == {[kind |-> "fetchThrows", status |-> 0, body |-> <<>>],
            [kind |-> "textThrows", status |-> 200, body |-> <<>>],
            [kind |-> "response", status |-> 404, body |-> <<"<">>],
            [kind |-> "response", status |-> 200, body |-> <<>>],
            [kind |-> "response", status |-> 200, body |-> <<"#">>],
            [kind |-> "response", status |-> 200, body |-> <<"<">>]}

InitShow ==
    /\ FavInit
    /\ RdInit
    /\ NwInit
    /\ hsPc = "done"
    /\ hsIdx = HISTORY_LIMIT
    /\ historyList \in ShowHistories
    /\ hsAvail = historyList
    /\ hsLog = [i \in 1..HISTORY_LIMIT |->
                    IF getRecentDates(HISTORY_LIMIT)[i] \in Range(historyList)
                    THEN "report" ELSE "notOk"]
    /\ RfInit
    /\ StInit
    /\ net = ShowNet
    /\ bootPc = "refresh"
    /\ SpInit
    /\ PvInit
    /\ TgInit /\ MdInit /\ SrInit /\ ThInit /\ UxInit /\ UnInit /\ FsInit /\ FbInit /\ RcInit

\* The page is opened with any fragment in its URL, on a network where a report
\* file is a report, a page that is not a report, or cannot be fetched.
RefreshNet == {[kind |-> "fetchThrows", status |-> 0, body |-> <<>>],
               [kind |-> "response", status |-> 200, body |-> <<"#">>],
               [kind |-> "response", status |-> 200, body |-> <<"<">>]}

InitRefresh ==
    /\ FavInit
    /\ RdInit
    /\ HsInit
    /\ RfInit
    /\ nwContent = InitialContent
    /\ nwDateLabel = ""
    /\ nwBadge = FALSE
    /\ nwBackVisible = FALSE
    /\ nwHash \in HashInputs
    /\ nwHashEvents = 0
    /\ nwLoads = NoLoads
    /\ nwLastRender = NoRender
    /\ net = RefreshNet
    /\ StInit
    /\ bootPc = "loading"
    /\ SpInit
    /\ PvInit
    /\ TgInit /\ MdInit /\ SrInit /\ ThInit /\ UxInit /\ UnInit /\ FsInit /\ FbInit /\ RcInit

\* The page is loaded with anything in the two slots StreakManager and
\* FavoritesManager read.
InitBoot ==
    /\ favStorage \in BootFavSlots
    /\ favCall = NoCall
    /\ RdInit
    /\ HsInit
    /\ NwInit
    /\ RfInit
    /\ clockDate = DayAfter(StartDate, 2)
    /\ clockDays = 2
    /\ streakStorage \in BootStreakSlots
    /\ streakCall = NoStreakCall
    /\ net = RefreshNet
    /\ bootPc = "loading"
    /\ SpInit
    /\ PvInit
    /\ TgInit /\ MdInit /\ SrInit /\ ThInit /\ UxInit /\ UnInit /\ FsInit /\ FbInit /\ RcInit

\* The page is loaded with anything under the key of the split ratio.
InitSplit ==
    /\ FavInit
    /\ RdInit
    /\ HsInit
    /\ NwInit
    /\ RfInit
    /\ StInit
    /\ net = FetchOutcomes
    /\ bootPc = "loading"
    /\ splitSlot \in SplitSlots
    /\ splitRatio = Num(50)
    /\ contentWidth = "unset"
    /\ splitInited = FALSE
    /\ isDragging = FALSE
    /\ rafPending = FALSE
    /\ rafRatio = 0
    /\ dragLast = NoMove
    /\ dragRelease = NoRelease
    /\ PvInit
    /\ TgInit /\ MdInit /\ SrInit /\ ThInit /\ UxInit /\ UnInit /\ FsInit /\ FbInit /\ RcInit

FavStep(A) == A /\ UNCHANGED <<rcVars, fbVars, fsVars, unVars, uxVars, thVars, srVars, mdVars, rdVars, hsVars, nwVars, rfVars, stVars, net, bootPc, spVars, pvVars, tgVars>>
RdStep(A) == A /\ UNCHANGED <<rcVars, fbVars, fsVars, unVars, uxVars, thVars, srVars, mdVars, favVars, hsVars, nwVars, rfVars, stVars, net, bootPc, spVars, pvVars, tgVars>>
HsStep(A) == A /\ UNCHANGED <<rcVars, fbVars, fsVars, unVars, uxVars, thVars, srVars, mdVars, favVars, rdVars, nwVars, rfVars, stVars, net, bootPc, spVars, pvVars, tgVars>>
NwStep(A) == A /\ UNCHANGED <<rcVars, fbVars, fsVars, unVars, uxVars, thVars, srVars, mdVars, favVars, rdVars, hsVars, rfVars, stVars, net, bootPc, spVars, pvVars, tgVars>>
RfStep(A) == A /\ UNCHANGED <<rcVars, fbVars, fsVars, unVars, uxVars, thVars, srVars, mdVars, favVars, rdVars, stVars, net, bootPc, spVars, pvVars, tgVars>>
BootStep(A) == A /\ UNCHANGED <<rcVars, fbVars, fsVars, unVars, uxVars, thVars, srVars, mdVars, rdVars, net, spVars, pvVars, tgVars>>
SpStep(A) == A /\ UNCHANGED <<rcVars, fbVars, fsVars, unVars, uxVars, thVars, srVars, mdVars, favVars, rdVars, hsVars, nwVars, rfVars, stVars, net, bootPc, pvVars, tgVars>>
PvStep(A) ==
    A /\ UNCHANGED <<rcVars, fbVars, fsVars, unVars, uxVars, thVars, srVars, mdVars, favVars, rdVars, hsVars, nwVars, rfVars, stVars, net, bootPc, splitSlot,
                     splitRatio, splitInited, isDragging, rafPending, rafRatio, dragLast,
                     dragRelease, tgVars>>
TgStep(A) ==
    A /\ UNCHANGED <<rcVars, fbVars, fsVars, unVars, uxVars, thVars, srVars, mdVars, favVars, rdVars, hsVars, nwVars, rfVars, stVars, net, bootPc, spVars,
                     pvVars>>
StStep(A) == A /\ UNCHANGED <<rcVars, fbVars, fsVars, unVars, uxVars, thVars, srVars, mdVars, favVars, rdVars, hsVars, nwVars, rfVars, net, bootPc, spVars, pvVars, tgVars>>

NextFav ==
    \/ FavStep(FavAdd)
    \/ FavStep(FavRemove)
    \/ FavStep(FavUpdate)

NextReader ==
    \/ RdStep(RdReceive)
    \/ RdStep(RdFetchResolves)
    \/ RdStep(RdFetchFails)
    \/ RdStep(RdTimeout)
    \/ RdStep(RdAbortRejects)
    \/ RdStep(RdBodyResolves)
    \/ RdStep(RdBodyFails)

NextHistory ==
    \/ HsStep(HsStart)
    \/ HsStep(HsProbe)
    \/ HsStep(HsRender)

NextShow ==
    \/ NwStep(NwClickHistory)
    \/ NwStep(NwBackToToday)
    \/ NwStep(NwUserHash)
    \/ NwStep(NwHashChange)
    \/ NwStep(NwLoadSettles)

NextRefresh ==
    \/ RfStep(RfStart)
    \/ HsStep(HsProbe)
    \/ RfStep(RfAfterList)
    \/ RfStep(RfLoadSettles)
    \/ NwStep(NwHashChange)
    \/ NwStep(NwLoadSettles)

NextStreak ==
    \/ StStep(StVisit)
    \/ StStep(StMidnight)
    \/ StStep(StClockBack)

NextBoot ==
    \/ BootStep(BootSidebar)
    \/ BootStep(BootStreak)
    \/ BootStep(BootRefresh)

NextSplit ==
    \/ SpStep(SpInitDraggable)
    \/ SpStep(SpStartDrag)
    \/ SpStep(SpPointerMove)
    \/ SpStep(SpAnimationFrame)
    \/ SpStep(SpEndDrag)

NextPreview ==
    \/ PvStep(PvOpen)
    \/ PvStep(PvDeferredLoad)
    \/ PvStep(PvWatchdog)
    \/ PvStep(PvFrameLoad)
    \/ PvStep(PvFrameError)
    \/ PvStep(PvClose)

NextTags ==
    \/ TgStep(TgShowNews)
    \/ TgStep(TgRender)
    \/ TgStep(TgToggleTag)
    \/ TgStep(TgClearFilters)

SpecFav == Init /\ [][NextFav]_vars

SpecReader == Init /\ [][NextReader]_vars

SpecHistory == Init /\ [][NextHistory]_vars

SpecShow == InitShow /\ [][NextShow]_vars

SpecRefresh == InitRefresh /\ [][NextRefresh]_vars

SpecStreak == Init /\ [][NextStreak]_vars

SpecBoot == InitBoot /\ [][NextBoot]_vars

SpecSplit == InitSplit /\ [][NextSplit]_vars

SpecPreview == Init /\ [][NextPreview]_vars

SpecTags == Init /\ [][NextTags]_vars

\* The page with two favorites in the sidebar.
InitModal ==
    /\ favStorage = SidebarFavorites /\ favCall = NoCall
    /\ RdInit /\ HsInit /\ NwInit /\ RfInit /\ StInit /\ net = FetchOutcomes
    /\ bootPc = "loading" /\ SpInit /\ PvInit
    /\ TgInit /\ MdInit /\ SrInit /\ ThInit /\ UxInit /\ UnInit /\ FsInit /\ FbInit /\ RcInit

MdStep(A) ==
    A /\ lastKey' = NoKey
      /\ UNCHANGED <<rcVars, fbVars, fsCards, unVars, uxVars, thVars, srState, rdVars, hsVars, nwVars, rfVars, stVars, net, bootPc, spVars, pvVars,
                     tgVars>>

\* A keydown event: both listeners run.
KeyStep(A) ==
    A /\ UNCHANGED <<rcVars, fbVars, fsVars, unVars, uxVars, thVars, rdVars, hsVars, nwVars, rfVars, stVars, net, bootPc, spVars, pvVars,
                     tgVars>>

NextModal ==
    \/ MdStep(MdOpenEdit)
    \/ MdStep(MdOpenDelete)
    \/ MdStep(MdAnimationFrame)
    \/ MdStep(MdInput)
    \/ MdStep(MdSave)
    \/ MdStep(MdConfirmDelete)
    \/ MdStep(MdClose)
    \/ MdStep(MdHideTimer)
    \/ KeyStep(KeyDown)

SpecModal == InitModal /\ [][NextModal]_vars

\* A step of the search box: it may move the focus.
SrStep(A) ==
    A /\ lastKey' = NoKey
      /\ UNCHANGED <<rcVars, fbVars, fsVars, unVars, uxVars, thVars, favVars, rdVars, hsVars, nwVars, rfVars, stVars, net, bootPc, spVars,
                     pvVars, tgVars, editHidden, deleteHidden, overlayHidden, overlayActive,
                     editTitle, editNote, onSave, onDelete, mdFrames, mdTimers, dialogOpen,
                     lastSave>>

NextSearch ==
    \/ SrStep(SrTick)
    \/ SrStep(SrInput)
    \/ SrStep(SrDebounceFires)
    \/ SrStep(SrClearClick)
    \/ KeyStep(KeyDown)
    \/ MdStep(MdHideTimer)

SpecSearch == InitModal /\ [][NextSearch]_vars

ThStep(A) ==
    A /\ UNCHANGED <<rcVars, fbVars, fsVars, unVars, uxVars, favVars, rdVars, hsVars, nwVars, rfVars, stVars, net, bootPc, spVars,
                     pvVars, tgVars, mdVars, srVars>>

NextTheme ==
    \/ ThStep(ThToggle)
    \/ ThStep(ThSet)
    \/ ThStep(ThReload)
    \/ ThStep(ThSystemChange)

SpecTheme == Init /\ [][NextTheme]_vars

UxStep(A) ==
    A /\ UNCHANGED <<rcVars, fbVars, fsVars, unVars, favVars, rdVars, hsVars, nwVars, rfVars, stVars, net, bootPc, spVars,
                     pvVars, tgVars, mdVars, srVars, thVars>>

NextUrl ==
    \/ UxStep(UxOpen)
    \/ UxStep(UxOpenPdf)
    \/ UxStep(UxPdfClick)
    \/ UxStep(UxAbsClick)

SpecUrl == Init /\ [][NextUrl]_vars

\* The hook mounted over one of the report stores.
InitUseNews ==
    /\ FavInit /\ RdInit /\ HsInit /\ NwInit /\ RfInit /\ StInit /\ net = FetchOutcomes
    /\ bootPc = "loading" /\ SpInit /\ PvInit
    /\ TgInit /\ MdInit /\ SrInit /\ ThInit /\ UxInit /\ FsInit /\ FbInit /\ RcInit
    /\ unStore \in {[dates |-> dates, fails |-> fails] : dates \in UnStores, fails \in BOOLEAN}
    /\ UnMounted

UnStep(A) ==
    A /\ UNCHANGED <<rcVars, fbVars, fsVars, favVars, rdVars, hsVars, nwVars, rfVars, stVars, net, bootPc, spVars,
                     pvVars, tgVars, mdVars, srVars, thVars, uxVars>>

NextUseNews ==
    \/ UnStep(UnDatesArrive)
    \/ UnStep(UnDatesFail)
    \/ UnStep(UnFetchSettles)
    \/ UnStep(UnEffectRuns)
    \/ UnStep(UnHashChange)
    \/ UnStep(UnSelectDate)
    \/ UnStep(UnUserHash)
    \/ UnStep(UnRefresh)

SpecUseNews == InitUseNews /\ [][NextUseNews]_vars

\* A step of the stars of the content region.
FsStep(A) ==
    A /\ UNCHANGED <<rcVars, fbVars, rdVars, hsVars, nwVars, rfVars, stVars, net, bootPc, spVars, pvVars,
                     tgVars, mdVars, srVars, thVars, uxVars, unVars>>

NextStars ==
    \/ FsStep(FsRender)
    \/ FsStep(FsStarClick)
    \/ MdStep(MdOpenDelete)
    \/ MdStep(MdAnimationFrame)
    \/ MdStep(MdConfirmDelete)
    \/ MdStep(MdClose)
    \/ MdStep(MdHideTimer)

SpecStars == Init /\ [][NextStars]_vars

\* A date selection: showNews up to its await, and the selection is counted.
SelStep(A) ==
    A /\ UNCHANGED <<rcVars, favVars, rdVars, hsVars, rfVars, stVars, net, bootPc, spVars, pvVars,
                     tgVars, mdVars, srVars, thVars, uxVars, unVars, fsVars>>

NextFeedback ==
    \/ SelStep(NwSelect)
    \/ NwStep(NwHashChange)
    \/ NwStep(NwLoadSettles)

\* Every pending hashchange event is dispatched and every fetch settles.
SpecFeedback ==
    /\ InitShow
    /\ [][NextFeedback]_vars
    /\ WF_vars(NwStep(NwHashChange))
    /\ WF_vars(NwStep(NwLoadSettles))

\* The hook mounted on a page that was opened with any fragment in its address.
InitHook ==
    /\ FavInit /\ RdInit /\ HsInit /\ NwInit /\ RfInit /\ StInit /\ net = FetchOutcomes
    /\ bootPc = "loading" /\ SpInit /\ PvInit
    /\ TgInit /\ MdInit /\ SrInit /\ ThInit /\ UxInit /\ FsInit /\ FbInit /\ RcInit
    /\ unStore \in {[dates |-> dates, fails |-> fails] : dates \in UnStores, fails \in BOOLEAN}
    /\ unHash \in UnNames \cup {""}
    /\ unDates = <<>> /\ unCurrentDate = "" /\ unMarkdown = <<>> /\ unIsLoading = TRUE
    /\ unStatus = "refreshing" /\ unHashEvents = 0 /\ unFetches = EmptyBag /\ unProbes = 1
    /\ unListener = <<>> /\ unEffect = FALSE /\ unCycles = 1 /\ unCall = NoUnCall

\* The mounted hook without user input: every awaited promise settles, every pending
\* event is dispatched and every due effect runs.
NextHook ==
    \/ UnStep(UnDatesArrive)
    \/ UnStep(UnDatesFail)
    \/ UnStep(UnFetchSettles)
    \/ UnStep(UnEffectRuns)
    \/ UnStep(UnHashChange)

SpecHook ==
    /\ InitHook
    /\ [][NextHook]_vars
    /\ WF_vars(UnStep(UnDatesArrive))
    /\ WF_vars(UnStep(UnDatesFail))
    /\ WF_vars(UnStep(UnFetchSettles))
    /\ WF_vars(UnStep(UnEffectRuns))
    /\ WF_vars(UnStep(UnHashChange))

\* The page with the reports directory in one of its states.
InitOverlap ==
    /\ FavInit /\ RdInit /\ HsInit /\ NwInit /\ RfInit /\ StInit /\ net = OverlapNet
    /\ bootPc = "loading" /\ SpInit /\ PvInit
    /\ TgInit /\ MdInit /\ SrInit /\ ThInit /\ UxInit /\ UnInit /\ FsInit /\ FbInit
    /\ rcStore \in RcStores
    /\ rcCycles = [c \in 1..MaxRefreshes |-> RcIdle]
    /\ rcRendered = <<>>

\* A step of a refresh cycle: it works on the history list, the status and the
\* report display.
RcStep(A) ==
    A /\ UNCHANGED <<favVars, rdVars, hsPc, hsIdx, hsAvail, hsLog, rfPc, rfTarget, rfSeen,
                     stVars, net, bootPc, spVars, pvVars, tgVars, mdVars, srVars, thVars,
                     uxVars, unVars, fsVars, fbVars>>

NextOverlap ==
    \/ RcStep(RcStart)
    \/ RcStep(RcProbe)
    \/ RcStep(RcAfterList)
    \/ RcStep(RcLoadSettles)
    \/ RcStep(RcPublish)
    \/ NwStep(NwHashChange)
    \/ NwStep(NwLoadSettles)

SpecOverlap == InitOverlap /\ [][NextOverlap]_vars

=============================================================================
